---- MODULE Spec2Model ----
(***************************************************************************)
(* Verification model of the point-of-sale desktop client                  *)
(* (app-client-python): the serial scale drivers (Toledo, Filizola), the   *)
(* SQLite local store (DatabaseManager), the CashierSession and Sale       *)
(* records, the ConfigManager and the helpers of utils/helpers.py.  Each   *)
(* component has its own specification (SpecScale, SpecStore, SpecSession, *)
(* SpecSale, SpecConfig, ...) over the variables it owns.                  *)
(***************************************************************************)
EXTENDS Integers, Sequences, FiniteSets, TLC

VARIABLES
    scale,    \* the driver object: brand, config, status, last_error, serial_connection and the settings it was opened with, _last_weight, _is_stable
    call,     \* the last driver call: operation, what the transport did, results, whether a handle was held when it began
    wait,     \* the wait_for_stable_weight() call in progress or last returned
    manager,  \* the ScaleManager: its configuration and whether it holds a driver (then scale)
    mgrcall,  \* the last ScaleManager call and what it returned
    db,       \* the database file: committed rows of products, sales, sale_items
    scope,    \* the connection of the get_connection scope in progress: <<>> or <<connection>>
    dbcall,   \* the last DatabaseManager call: operation, outcome, database before it
    settings, \* the last get_setting / set_setting call, and the value last given to set_setting for each key
    sess,     \* the CashierSession object
    sesscall, \* the last CashierSession call
    ledger,   \* how many add_sale / cancel_sale calls were made on the session, and how many returned
    sale,     \* the Sale object
    salecall, \* the last Sale call
    merge,    \* a deep merge of two dicts: the arguments, and the result of each application
    files,    \* the configuration directory: whether it exists, and what each file holds
    cfg,      \* the ConfigManager: whether it is constructed, and its _configs
    cfgcall,  \* the last ConfigManager call: arguments, what it returned, what it logged
    retry,    \* a call of a function wrapped by retry_on_exception: its parameters, where the wrapper is, what each invocation did
    readers   \* two threads in read_weight() on the driver: where each is, what it read and returned, the input buffer of the port

vars == <<scale, call, wait, manager, mgrcall, db, scope, dbcall, settings, sess, sesscall, ledger, sale, salecall, merge, files, cfg, cfgcall, retry, readers>>

(***************************************************************************)
(* Bounds of the model                                                     *)
(***************************************************************************)
\* longest numeric payload the device puts between a frame's prefix and suffix
MaxNumLen == 2

(***************************************************************************)
(* Python values                                                           *)
(***************************************************************************)
\* Optional[Decimal]: None is the empty tuple, Decimal is <<coefficient, digits after the point>>
None == <<>>

Decimal(coef, exp) == <<coef, exp>>

\* Optional[str] last_error: None
NoError == "None"

RECURSIVE Pow10(_)
Pow10(n) == IF n = 0 THEN 1 ELSE 10 * Pow10(n - 1)

Abs(i) == IF i < 0 THEN -i ELSE i

\* abs(d) < Decimal(c, e), compared exactly
DecAbsLess(d, c, e) == Abs(d[1]) * Pow10(e) < c * Pow10(d[2])

\* abs(d) <= Decimal(c, e)
DecAbsLeq(d, c, e) == Abs(d[1]) * Pow10(e) <= c * Pow10(d[2])

DecIsZero(d) == d[1] = 0

(***************************************************************************)
(* str operations used by the drivers.  A str is a sequence of characters; *)
(* control characters are written by name.                                 *)
(***************************************************************************)
Digits == {"0", "1", "2", "3", "4", "5", "6", "7", "8", "9"}

DigitVal == [c \in Digits |->
    CASE c = "0" -> 0 [] c = "1" -> 1 [] c = "2" -> 2 [] c = "3" -> 3 [] c = "4" -> 4
      [] c = "5" -> 5 [] c = "6" -> 6 [] c = "7" -> 7 [] c = "8" -> 8 [] c = "9" -> 9]

ControlChars == {"STX", "ETX", "CR", "LF", "TAB"}

Whitespace == {" ", "CR", "LF", "TAB"}

isprintable(c) == c \notin ControlChars

isdigit(c) == c \in Digits

\* str.lower() on one character
LowerChar(c) ==
    CASE c = "S" -> "s" [] c = "T" -> "t" [] c = "A" -> "a" [] c = "B" -> "b"
      [] c = "L" -> "l" [] c = "E" -> "e" [] c = "G" -> "g" [] c = "U" -> "u"
      [] c = "W" -> "w" [] c = "K" -> "k" [] c = "R" -> "r" [] OTHER -> c

lower(s) == [i \in 1..Len(s) |-> LowerChar(s[i])]

\* sub in s
Contains(s, sub) ==
    \E i \in 1..(Len(s) - Len(sub) + 1) : SubSeq(s, i, i + Len(sub) - 1) = sub

startswith(s, sub) == Len(s) >= Len(sub) /\ SubSeq(s, 1, Len(sub)) = sub

\* s.lstrip(chars)
RECURSIVE lstrip(_, _)
lstrip(s, chars) ==
    IF s # <<>> /\ Head(s) \in chars THEN lstrip(Tail(s), chars) ELSE s

RECURSIVE rstrip(_, _)
rstrip(s, chars) ==
    IF s # <<>> /\ s[Len(s)] \in chars THEN rstrip(SubSeq(s, 1, Len(s) - 1), chars) ELSE s

\* s.strip()
strip(s) == rstrip(lstrip(s, Whitespace), Whitespace)

\* s.split(',')[-1]
RECURSIVE LastSegment(_)
LastSegment(s) ==
    IF \E i \in 1..Len(s) : s[i] = ","
    THEN LastSegment(Tail(s))
    ELSE s

\* s.replace('kg', '')
RECURSIVE RemoveKg(_)
RemoveKg(s) ==
    IF Len(s) < 2 THEN s
    ELSE IF SubSeq(s, 1, 2) = <<"k", "g">> THEN RemoveKg(SubSeq(s, 3, Len(s)))
    ELSE <<Head(s)>> \o RemoveKg(Tail(s))

\* ''.join(c for c in response if c.isprintable())
CleanResponse(response) == SelectSeq(response, isprintable)

RECURSIVE DigitsToNat(_)
DigitsToNat(s) ==
    IF s = <<>> THEN 0 ELSE DigitsToNat(SubSeq(s, 1, Len(s) - 1)) * 10 + DigitVal[s[Len(s)]]

IsPoint(c) == c = "."

\* digits after the point in a number body
Exponent(body) ==
    IF \E i \in 1..Len(body) : body[i] = "."
    THEN Len(body) - (CHOOSE i \in 1..Len(body) : body[i] = ".")
    ELSE 0

\* a number body Decimal() accepts: digits with at most one point and at
\* least one digit
ValidBody(body) ==
    /\ \A i \in 1..Len(body) : body[i] \in Digits \cup {"."}
    /\ Len(SelectSeq(body, IsPoint)) <= 1
    /\ SelectSeq(body, isdigit) # <<>>

DecimalOfBody(negative, body) ==
    IF ~ValidBody(body) THEN None
    ELSE Decimal(IF negative
                 THEN -DigitsToNat(SelectSeq(body, isdigit))
                 ELSE DigitsToNat(SelectSeq(body, isdigit)),
                 Exponent(body))

\* Decimal(str) on a string of digits, '.', '+', '-': an optional leading sign,
\* then a number body; anything else raises InvalidOperation, which both
\* parsers catch and turn into None.
DecimalOfStr(s) ==
    IF s # <<>> /\ Head(s) \in {"+", "-"}
    THEN DecimalOfBody(Head(s) = "-", Tail(s))
    ELSE DecimalOfBody(FALSE, s)

(***************************************************************************)
(* Scale drivers: equipment/base.py, equipment/scales/toledo.py,           *)
(* equipment/scales/filizola.py                                            *)
(***************************************************************************)
Brands == {"toledo", "filizola"}

\* EquipmentStatus
EquipmentStatus == {"disconnected", "connecting", "connected", "error", "busy"}

IsWeightChar(c) == isdigit(c) \/ c \in {".", "-", "+"}

IsNumberChar(c) == isdigit(c) \/ c = "."

\* the tail of both parsers: Decimal(...) raising is caught and gives None;
\* otherwise _is_stable is set and the weight returned
ParsedWeight(weight, marker, stable) ==
    IF weight # None
    THEN [weight |-> weight, stable |-> marker]
    ELSE [weight |-> None, stable |-> stable]

\* 'stable' in clean_response.lower()
SaysStable(clean_response) ==
    Contains(lower(clean_response), <<"s", "t", "a", "b", "l", "e">>)

\* weight_str of the Toledo parser
toledo_weight_str(clean_response) ==
    SelectSeq(RemoveKg(LastSegment(clean_response)), IsWeightChar)

\* a parser that reads an empty weight_str as a weight of zero: the reading
\* the empty-string guard of _parse_toledo_response keeps out
toledo_parse_clean_zero(clean_response, stable) ==
    IF Contains(clean_response, <<"k", "g">>)
    THEN ParsedWeight(IF toledo_weight_str(clean_response) = <<>>
                      THEN Decimal(0, 0)
                      ELSE DecimalOfStr(toledo_weight_str(clean_response)),
                      Contains(clean_response, <<"S", "T">>) \/ SaysStable(clean_response),
                      stable)
    ELSE [weight |-> None, stable |-> stable]

toledo_parse_clean(clean_response, stable) ==
    IF Contains(clean_response, <<"k", "g">>) /\ toledo_weight_str(clean_response) # <<>>
    THEN ParsedWeight(DecimalOfStr(toledo_weight_str(clean_response)),
                      Contains(clean_response, <<"S", "T">>) \/ SaysStable(clean_response),
                      stable)
    ELSE [weight |-> None, stable |-> stable]

\* ToledoScale._parse_toledo_response: the weight returned and the value of
\* _is_stable afterwards (stable is the value before the call)
parse_toledo_response(response, stable) ==
    toledo_parse_clean(CleanResponse(response), stable)

\* numbers of the Filizola parser
filizola_numbers(clean_response) ==
    SelectSeq(lstrip(clean_response, {"S", "W", "+", "-"}), IsNumberChar)

filizola_parse_clean(clean_response, stable) ==
    IF filizola_numbers(clean_response) # <<>>
    THEN ParsedWeight(DecimalOfStr(filizola_numbers(clean_response)),
                      startswith(clean_response, <<"S">>) \/ SaysStable(clean_response),
                      stable)
    ELSE [weight |-> None, stable |-> stable]

\* FilizolaScale._parse_filizola_response
parse_filizola_response(response, stable) ==
    filizola_parse_clean(CleanResponse(response), stable)

\* a variant that reads the answer of every brand with the Toledo grammar
parse_response_toledo(brand, response, stable) == parse_toledo_response(response, stable)

parse_response(brand, response, stable) ==
    IF brand = "toledo"
    THEN parse_toledo_response(response, stable)
    ELSE parse_filizola_response(response, stable)

\* an error handler that records the message and leaves the status alone
set_error_message_only(s, error_message) ==
    [s EXCEPT !.last_error = error_message]

\* BaseEquipment.set_error
set_error(s, error_message) ==
    [s EXCEPT !.last_error = error_message, !.status = "error"]

\* BaseEquipment.clear_error
clear_error(s) ==
    [s EXCEPT !.last_error = NoError,
              !.status = IF @ = "error" THEN "disconnected" ELSE @]

\* a dict is a function from its keys; {} is the function with no key
EmptyDict == [k \in {} |-> 0]

\* d.get(key, default)
dict_get(d, key, default) == IF key \in DOMAIN d THEN d[key] ELSE default

\* d.update(other)
dict_update(d, other) ==
    [k \in DOMAIN d \cup DOMAIN other |-> IF k \in DOMAIN other THEN other[k] ELSE d[k]]

\* no serial.Serial object is held
NotOpened == [port |-> "", baudrate |-> 0, timeout |-> 0]

\* the port, baudrate and timeout connect() gives to serial.Serial(...):
\* self.config.get('connection', {}).get(name, default)
connection_settings(config) ==
    [port |-> dict_get(dict_get(config, "connection", EmptyDict), "port", "COM1"),
     baudrate |-> dict_get(dict_get(config, "connection", EmptyDict), "baudrate", 9600),
     timeout |-> dict_get(dict_get(config, "connection", EmptyDict), "timeout", 2)]

\* is_connected
is_connected(s) ==
    s.serial_connection = "open" /\ s.status = "connected"

\* a disconnect that closes the transport and leaves the status as it was
disconnect_keeps_status(s, close) ==
    IF s.serial_connection = "open" /\ close = "error"
    THEN [s |-> set_error(s, "Erro ao desconectar"), ok |-> FALSE]
    ELSE [s |-> [s EXCEPT !.serial_connection = "None", !.serial_settings = NotOpened],
          ok |-> TRUE]

\* disconnect; close is the outcome of serial_connection.close()
disconnect(s, close) ==
    IF s.serial_connection = "open" /\ close = "error"
    THEN [s |-> set_error(s, "Erro ao desconectar"), ok |-> FALSE]
    ELSE [s |-> [s EXCEPT !.serial_connection = "None", !.serial_settings = NotOpened,
                          !.status = "disconnected"],
          ok |-> TRUE]

\* read_weight after the response was read and stripped: busy is the driver
\* with status Busy, parsed what the vendor parser made of the response
read_weight_response(busy, response, parsed) ==
    IF response # <<>> /\ parsed.weight # None
    THEN [s |-> [busy EXCEPT !.is_stable = parsed.stable,
                             !.last_weight = parsed.weight,
                             !.status = "connected"],
          weight |-> parsed.weight, sent |-> TRUE]
    ELSE [s |-> set_error([busy EXCEPT !.is_stable = parsed.stable],
                          "Resposta invalida da balanca"),
          weight |-> None, sent |-> TRUE]

\* the try block of read_weight
read_weight_try(busy, io) ==
    IF io.fail = "timeout"
    THEN [s |-> set_error(busy, "Timeout na comunicacao"), weight |-> None, sent |-> TRUE]
    ELSE IF io.fail = "error"
    THEN [s |-> set_error(busy, "Erro na leitura"), weight |-> None, sent |-> TRUE]
    ELSE read_weight_response(busy, strip(io.line),
                              parse_response(busy.brand, strip(io.line), busy.is_stable))

\* read_weight; io.fail is the exception the transport raises inside the try
\* block ("none", "timeout", "error"), io.line the bytes readline() returns
read_weight(s, io) ==
    IF ~is_connected(s)
    THEN [s |-> set_error(s, "Balanca nao conectada"), weight |-> None, sent |-> FALSE]
    ELSE read_weight_try([s EXCEPT !.status = "busy"], io)

\* the finally block of read_weight: Busy reverts to Connected
read_weight_finally(r) ==
    IF r.sent
    THEN [r EXCEPT !.s.status = IF @ = "busy" THEN "connected" ELSE @]
    ELSE r

\* a read without exception handlers and finally block: an exception of the
\* transport leaves the method with the status still Busy
read_weight_call_unhandled(s, io) ==
    IF is_connected(s) /\ io.fail # "none"
    THEN [s |-> [s EXCEPT !.status = "busy"], weight |-> None, sent |-> TRUE]
    ELSE read_weight_finally(read_weight(s, io))

read_weight_call(s, io) == read_weight_finally(read_weight(s, io))

\* test_connection
test_connection(s, io) == read_weight_call(s, io).weight # None

\* connect after the port was opened: t is the driver after test_connection
connect_tested(t, ok, close) ==
    IF ok
    THEN [s |-> clear_error([t EXCEPT !.status = "connected"]), ok |-> TRUE]
    ELSE [s |-> set_error(disconnect(t, close).s, "Falha no teste de comunicacao"),
          ok |-> FALSE]

connect_opened(opened, close, io) ==
    connect_tested(read_weight_call(opened, io).s, test_connection(opened, io), close)

\* connect; open is the outcome of serial.Serial(...), close that of the
\* close() in the failure path
connect(s, open, close, io) ==
    IF open = "error"
    THEN [s |-> set_error([s EXCEPT !.status = "connecting"], "Erro na conexao serial"),
          ok |-> FALSE]
    ELSE connect_opened([s EXCEPT !.status = "connecting", !.serial_connection = "open",
                                  !.serial_settings = connection_settings(s.config)],
                        close, io)

\* an acceptance test without the threshold: any successful reading passes
tare_accepts_any(current_weight) == current_weight # None

\* the tare acceptance test: abs(current_weight) < Decimal('0.010')
tare_accepts(current_weight) ==
    current_weight # None /\ DecAbsLess(current_weight, 10, 3)

\* tare after the verification read r
tare_verified(r) ==
    IF tare_accepts(r.weight)
    THEN [s |-> r.s, ok |-> TRUE, weight |-> r.weight]
    ELSE [s |-> set_error(r.s, "Falha na execucao da tara"), ok |-> FALSE, weight |-> r.weight]

\* tare; write is the outcome of the command write
tare(s, write, io) ==
    IF ~is_connected(s)
    THEN [s |-> s, ok |-> FALSE, weight |-> None]
    ELSE IF write = "error"
    THEN [s |-> set_error(s, "Erro na tara"), ok |-> FALSE, weight |-> None]
    ELSE tare_verified(read_weight_call(s, io))

\* a zero that takes the command as done and records a stable weight of 0
zero_resets_weight(s, write) ==
    IF ~is_connected(s)
    THEN [s |-> s, ok |-> FALSE]
    ELSE IF write = "error"
    THEN [s |-> set_error(s, "Erro ao zerar"), ok |-> FALSE]
    ELSE [s |-> [s EXCEPT !.last_weight = Decimal(0, 0), !.is_stable = TRUE], ok |-> TRUE]

\* zero
zero(s, write) ==
    IF ~is_connected(s)
    THEN [s |-> s, ok |-> FALSE]
    ELSE IF write = "error"
    THEN [s |-> set_error(s, "Erro ao zerar"), ok |-> FALSE]
    ELSE [s |-> s, ok |-> TRUE]

(***************************************************************************)
(* What the device sends: a frame around a numeric payload                 *)
(***************************************************************************)
NumAlphabet == {"0", "1", ".", "-"}

NumStrings == UNION {[1..k -> NumAlphabet] : k \in 0..MaxNumLen}

Frames ==
    { [pre |-> <<"S", "T", ",", "G", "S", ",">>, suf |-> <<"k", "g", "CR", "LF">>],
      [pre |-> <<"U", "S", ",", "G", "S", ",">>, suf |-> <<"k", "g">>],
      [pre |-> <<>>,                             suf |-> <<"k", "g">>],
      [pre |-> <<"S">>,                          suf |-> <<>>],
      [pre |-> <<>>,                             suf |-> <<"CR", "LF">>],
      [pre |-> <<"STX", "+">>,                   suf |-> <<"ETX">>] }

FrameLines == { f.pre \o n \o f.suf : f \in Frames, n \in NumStrings }

SampleLines ==
    { <<"S", "T", ",", "G", "S", ",", "+", "0", "0", "0", "1", "2", ".", "3", "4", "5", "k", "g", "CR", "LF">>,
      <<"S", "T", ",", "G", "S", ",", "+", "0", ".", "0", "0", "5", "k", "g">>,
      <<"U", "S", ",", "G", "S", ",", "-", "0", ".", "0", "1", "1", "k", "g">>,
      <<"S", "0", "0", "0", ".", "5", "0", "0">>,
      <<"S", "T", ",", "G", "S", ",", "k", "g">>,
      <<"E", "R", "R">>,
      <<>> }

Lines == FrameLines \cup SampleLines

Outcomes == {"ok", "error"}

ReadFailures == {"none", "timeout", "error"}

NoIO == [open |-> "ok", close |-> "ok", write |-> "ok", fail |-> "none", line |-> <<>>]

\* the transport outcomes a read_weight() or tare() consults: none when the
\* driver is not connected, since the transport is then not touched
ReadIOs(s) ==
    IF is_connected(s)
    THEN { [NoIO EXCEPT !.fail = f, !.line = l] : f \in ReadFailures, l \in Lines }
    ELSE { NoIO }

\* tare() writes its command first, then reads
TareIOs(s) ==
    IF is_connected(s)
    THEN ReadIOs(s) \cup { [NoIO EXCEPT !.write = "error"] }
    ELSE { NoIO }

WriteIOs(s) ==
    IF is_connected(s)
    THEN { [NoIO EXCEPT !.write = w] : w \in Outcomes }
    ELSE { NoIO }

\* what the device would answer to the probe read of connect()
ProbeLines ==
    { <<"S", "T", ",", "G", "S", ",", "+", "0", "0", "0", "1", "2", ".", "3", "4", "5", "k", "g", "CR", "LF">>,
      <<"S", "0", "0", "0", ".", "5", "0", "0">>,
      <<>> }

ConnectIOs ==
    { [NoIO EXCEPT !.open = o, !.close = c, !.line = l] :
        o \in Outcomes, c \in Outcomes, l \in ProbeLines }

CloseIOs(s) ==
    IF s.serial_connection = "open"
    THEN { [NoIO EXCEPT !.close = c] : c \in Outcomes }
    ELSE { NoIO }

\* BaseEquipment.__init__, BaseScale.__init__, ToledoScale.__init__
ScaleConstructed(brand) ==
    [brand |-> brand, status |-> "disconnected", last_error |-> NoError,
     serial_connection |-> "None", last_weight |-> None, is_stable |-> FALSE,
     config |-> EmptyDict, serial_settings |-> NotOpened]

\* the state connect() is documented to establish: an open transport and
\* status Connected
ScaleConnected(brand) ==
    [ScaleConstructed(brand) EXCEPT !.serial_connection = "open", !.status = "connected",
                                    !.serial_settings = connection_settings(EmptyDict)]

\* call.used: whether the call reached the transport (for read_weight, tare
\* and zero: whether the driver was connected when called); call.opened_with:
\* the port, baudrate and timeout a connect call gave to serial.Serial(...)
NoCall == [op |-> "init", io |-> NoIO, ok |-> FALSE, weight |-> None, used |-> FALSE, held |-> FALSE,
           opened_with |-> NotOpened]

Connect ==
    \E io \in ConnectIOs : \E r \in {connect(scale, io.open, io.close, io)} :
        /\ scale' = r.s
        /\ call' = [op |-> "connect", io |-> io, ok |-> r.ok, weight |-> None, used |-> TRUE,
                    held |-> scale.serial_connection = "open",
                    opened_with |-> connection_settings(scale.config)]

Disconnect ==
    \E io \in CloseIOs(scale) : \E r \in {disconnect(scale, io.close)} :
        /\ scale' = r.s
        /\ call' = [op |-> "disconnect", io |-> io, ok |-> r.ok, weight |-> None,
                    used |-> scale.serial_connection = "open",
                    held |-> scale.serial_connection = "open", opened_with |-> NotOpened]

ReadWeight ==
    \E io \in ReadIOs(scale) : \E r \in {read_weight_call(scale, io)} :
        /\ scale' = r.s
        /\ call' = [op |-> "read_weight", io |-> io, ok |-> r.weight # None,
                    weight |-> r.weight, used |-> r.sent,
                    held |-> scale.serial_connection = "open", opened_with |-> NotOpened]

Tare ==
    \E io \in TareIOs(scale) : \E r \in {tare(scale, io.write, io)} :
        /\ scale' = r.s
        /\ call' = [op |-> "tare", io |-> io, ok |-> r.ok, weight |-> r.weight,
                    used |-> is_connected(scale),
                    held |-> scale.serial_connection = "open", opened_with |-> NotOpened]

Zero ==
    \E io \in WriteIOs(scale) : \E r \in {zero(scale, io.write)} :
        /\ scale' = r.s
        /\ call' = [op |-> "zero", io |-> io, ok |-> r.ok, weight |-> None,
                    used |-> is_connected(scale),
                    held |-> scale.serial_connection = "open", opened_with |-> NotOpened]

(***************************************************************************)
(* BaseScale.wait_for_stable_weight.  Time is counted in poll intervals    *)
(* (the 100 ms of time.sleep(0.1)).                                        *)
(***************************************************************************)
\* longest timeout given to wait_for_stable_weight, in poll intervals
MaxTimeout == 2

\* longest time one read_weight() on an open transport takes, in poll intervals
MaxReadTicks == 2

\* a loop test that takes any reading, stable or not
wait_accepts_any(weight, stable) == weight # None

\* weight is not None and self.is_weight_stable()
wait_accepts(weight, stable) == weight # None /\ stable

\* a loop body without the sleep between reads
poll_elapsed_no_sleep(elapsed, d) == elapsed + d

\* time.time() - start_time after one more pass of the loop body: the read
\* took d, then time.sleep(0.1)
poll_elapsed(elapsed, d) == elapsed + d + 1

NoWait ==
    [active |-> FALSE, timeout |-> 0, elapsed |-> 0, polled |-> FALSE,
     returned |-> FALSE, result |-> None]

\* what the device answers to the reads of a wait
WaitIOs(s) ==
    IF is_connected(s)
    THEN { [NoIO EXCEPT !.fail = f, !.line = l] : f \in ReadFailures, l \in SampleLines }
    ELSE { NoIO }

\* how long a read takes: no time when the driver is not connected, since the
\* transport is then not touched
ReadTicks(s) == IF is_connected(s) THEN 0..MaxReadTicks ELSE {0}

\* wait_for_stable_weight(timeout): start_time = time.time()
WaitStart ==
    /\ ~wait.active
    /\ \E timeout \in 0..MaxTimeout :
         wait' = [NoWait EXCEPT !.active = TRUE, !.timeout = timeout]
    /\ UNCHANGED <<scale, call>>

\* one pass of the loop body: read, test, sleep
WaitPoll ==
    /\ wait.active
    /\ wait.elapsed < wait.timeout
    /\ \E io \in WaitIOs(scale), d \in ReadTicks(scale) : \E r \in {read_weight_call(scale, io)} :
         /\ scale' = r.s
         /\ call' = [op |-> "read_weight", io |-> io, ok |-> r.weight # None,
                     weight |-> r.weight, used |-> r.sent,
                    held |-> scale.serial_connection = "open", opened_with |-> NotOpened]
         /\ wait' = IF wait_accepts(r.weight, r.s.is_stable)
                    THEN [wait EXCEPT !.active = FALSE, !.returned = TRUE, !.polled = TRUE,
                                      !.result = r.weight, !.elapsed = @ + d]
                    ELSE [wait EXCEPT !.polled = TRUE, !.elapsed = poll_elapsed(@, d)]

\* the loop test fails: return None
WaitTimeout ==
    /\ wait.active
    /\ ~(wait.elapsed < wait.timeout)
    /\ wait' = [wait EXCEPT !.active = FALSE, !.returned = TRUE, !.result = None]
    /\ UNCHANGED <<scale, call>>

(***************************************************************************)
(* ScaleManager: equipment/scales/manager.py.  The driver it holds, when   *)
(* it holds one, is the variable scale.                                    *)
(***************************************************************************)
\* the configuration block: 'enabled' and 'default_brand', <<>> for an absent key
ManagerConfigs ==
    [enabled : {<<>>, <<TRUE>>, <<FALSE>>},
     default_brand : {<<>>, <<"toledo">>, <<"Filizola">>, <<"acme">>},
     supported_brands : {<<>>},
     connection : {<<>>}]

\* configurations of an enabled manager that carry a `connection` block (all
\* three parameters, or the port alone) and per-brand parameter sets
ConnectionConfigs ==
    [enabled : {<<TRUE>>},
     default_brand : {<<>>, <<"Filizola">>},
     supported_brands : {<<>>,
                         <<[b \in Brands |-> [model |-> "9094"]]>>,
                         <<[b \in {"toledo"} |-> [connection |-> [port |-> "COM7"]]]>>},
     connection : {<<>>,
                   <<[port |-> "COM3", baudrate |-> 4800, timeout |-> 5]>>,
                   <<[port |-> "COM3"]>>}]

\* dict.get(key, default)
config_get(value, default) == IF value = <<>> THEN default ELSE value[1]

\* brand.lower()
lower_brand(brand) ==
    CASE brand = "Filizola" -> "filizola"
      [] OTHER -> brand

\* the brand _initialize_scale looks up in SUPPORTED_BRANDS
configured_brand(config) == lower_brand(config_get(config.default_brand, "toledo"))

\* an initialisation that builds the driver whether or not 'enabled' is set
initialize_scale_always(config) ==
    IF configured_brand(config) \notin Brands
    THEN [raised |-> TRUE, scale |-> <<>>]
    ELSE [raised |-> FALSE, scale |-> <<configured_brand(config)>>]

\* an initialisation that leaves the manager without driver when the brand is
\* not supported
initialize_scale_fallback(config) ==
    IF ~config_get(config.enabled, FALSE) \/ configured_brand(config) \notin Brands
    THEN [raised |-> FALSE, scale |-> <<>>]
    ELSE [raised |-> FALSE, scale |-> <<configured_brand(config)>>]

\* ScaleManager._initialize_scale: whether EquipmentError is raised, and the
\* brand of the driver built (<<>>: self.scale stays None)
initialize_scale(config) ==
    IF ~config_get(config.enabled, FALSE)
    THEN [raised |-> FALSE, scale |-> <<>>]
    ELSE IF configured_brand(config) \notin Brands
    THEN [raised |-> TRUE, scale |-> <<>>]
    ELSE [raised |-> FALSE, scale |-> <<configured_brand(config)>>]

\* the config _initialize_scale gives to the driver: the parameter set of the
\* brand, updated with the entries of the connection block
scale_config(config, brand) ==
    dict_update(dict_get(config_get(config.supported_brands, EmptyDict), brand, EmptyDict),
                config_get(config.connection, EmptyDict))

NoManager ==
    [constructed |-> FALSE, raised |-> FALSE, has_scale |-> FALSE,
     config |-> [enabled |-> <<>>, default_brand |-> <<>>, supported_brands |-> <<>>,
                 connection |-> <<>>]]

NoMgrCall ==
    [op |-> "init", ok |-> FALSE, weight |-> None, status |-> "", opened |-> FALSE]

\* what a facade method returned; opened: whether it called serial.Serial(...)
MgrReturn(op, ok, weight, status, opened) ==
    mgrcall' = [op |-> op, ok |-> ok, weight |-> weight, status |-> status, opened |-> opened]

\* ScaleManager(config), config one of configs
ConstructFrom(configs) ==
    /\ ~manager.constructed
    /\ \E config \in configs : \E r \in {initialize_scale(config)} :
         /\ manager' = [constructed |-> TRUE, raised |-> r.raised,
                        has_scale |-> r.scale # <<>>, config |-> config]
         /\ scale' = IF r.scale # <<>>
                     THEN [ScaleConstructed(r.scale[1])
                             EXCEPT !.config = scale_config(config, r.scale[1])]
                     ELSE scale
         /\ MgrReturn("construct", ~r.raised, None, "", FALSE)
    /\ UNCHANGED <<call, wait>>

Construct == ConstructFrom(ManagerConfigs)

\* ScaleManager(config) with a configuration that describes the connection
ConstructConnection == ConstructFrom(ConnectionConfigs)

\* a manager exists and no call into it is in progress
ManagerReady == manager.constructed /\ ~manager.raised /\ ~wait.active

MgrConnect ==
    /\ ManagerReady
    /\ IF manager.has_scale
       THEN Connect /\ MgrReturn("connect", call'.ok, None, "", TRUE)
       ELSE UNCHANGED <<scale, call>> /\ MgrReturn("connect", FALSE, None, "", FALSE)
    /\ UNCHANGED <<manager, wait>>

MgrDisconnect ==
    /\ ManagerReady
    /\ IF manager.has_scale
       THEN Disconnect /\ MgrReturn("disconnect", call'.ok, None, "", FALSE)
       ELSE UNCHANGED <<scale, call>> /\ MgrReturn("disconnect", TRUE, None, "", FALSE)
    /\ UNCHANGED <<manager, wait>>

MgrIsConnected ==
    /\ ManagerReady
    /\ MgrReturn("is_connected", manager.has_scale /\ is_connected(scale), None, "", FALSE)
    /\ UNCHANGED <<scale, call, manager, wait>>

MgrReadWeight ==
    /\ ManagerReady
    /\ IF manager.has_scale
       THEN ReadWeight /\ MgrReturn("read_weight", call'.ok, call'.weight, "", FALSE)
       ELSE UNCHANGED <<scale, call>> /\ MgrReturn("read_weight", FALSE, None, "", FALSE)
    /\ UNCHANGED <<manager, wait>>

\* with a driver, the call enters the driver's wait loop (WaitPoll, WaitTimeout)
MgrWaitForStableWeight ==
    /\ ManagerReady
    /\ IF manager.has_scale
       THEN WaitStart
       ELSE UNCHANGED <<scale, call, wait>>
    /\ MgrReturn("wait_for_stable_weight", FALSE, None, "", FALSE)
    /\ UNCHANGED manager

MgrTare ==
    /\ ManagerReady
    /\ IF manager.has_scale
       THEN Tare /\ MgrReturn("tare", call'.ok, None, "", FALSE)
       ELSE UNCHANGED <<scale, call>> /\ MgrReturn("tare", FALSE, None, "", FALSE)
    /\ UNCHANGED <<manager, wait>>

MgrZero ==
    /\ ManagerReady
    /\ IF manager.has_scale
       THEN Zero /\ MgrReturn("zero", call'.ok, None, "", FALSE)
       ELSE UNCHANGED <<scale, call>> /\ MgrReturn("zero", FALSE, None, "", FALSE)
    /\ UNCHANGED <<manager, wait>>

\* get_status: 'connected' and 'status' of the record returned
MgrGetStatus ==
    /\ ManagerReady
    /\ IF manager.has_scale
       THEN MgrReturn("get_status", is_connected(scale), scale.last_weight, scale.status, FALSE)
       ELSE MgrReturn("get_status", FALSE, None, "disabled", FALSE)
    /\ UNCHANGED <<scale, call, manager, wait>>

(***************************************************************************)
(* Local store: core/database.py.  The database file holds the committed   *)
(* rows; a connection works on its own copy until it commits.              *)
(***************************************************************************)
\* ids of sales rows and of sale_items rows
SaleIds == {1}

ItemIds == {1, 2}

\* longest params_list given to execute_many, and most statements of one scope
MaxBatch == 3

\* products.sku values (sku TEXT UNIQUE); a products row is identified by its
\* sku, its id being assigned by AUTOINCREMENT
Skus == {"A", "B"}

StmtKinds == {"ins_product", "ins_sale", "ins_item", "del_sale", "del_item"}

Stmt(kind, id, sku, sale_id) == [kind |-> kind, id |-> id, sku |-> sku, sale_id |-> sale_id]

\* the statements of one kind, one per parameter tuple
StmtsOf(kind) ==
    CASE kind = "ins_product" -> { Stmt(kind, 0, k, 0) : k \in Skus }
      [] kind = "ins_sale"    -> { Stmt(kind, i, "", 0) : i \in SaleIds }
      [] kind = "ins_item"    -> { Stmt(kind, i, "", r) : i \in ItemIds, r \in SaleIds }
      [] kind = "del_sale"    -> { Stmt(kind, i, "", 0) : i \in SaleIds }
      [] kind = "del_item"    -> { Stmt(kind, i, "", 0) : i \in ItemIds }

Stmts == UNION { StmtsOf(k) : k \in StmtKinds }

Batches(kind) == UNION { [1..n -> StmtsOf(kind)] : n \in 1..MaxBatch }

\* the tables after _create_tables
EmptyDb == [products |-> {}, sales |-> {}, sale_items |-> {}, app_settings |-> {}]

\* a connection in autocommit mode (isolation_level=None), where every
\* statement is its own transaction
sqlite_connect_autocommit(file) ==
    [data |-> file, committed |-> file, fk |-> FALSE, in_txn |-> FALSE,
     autocommit |-> TRUE, raised |-> FALSE]

\* sqlite3.connect(str(self.db_path)): a new connection; foreign-key
\* enforcement is a per-connection setting that starts off, and the
\* connection opens transactions implicitly (isolation_level is not given)
sqlite_connect(file) ==
    [data |-> file, committed |-> file, fk |-> FALSE, in_txn |-> FALSE,
     autocommit |-> FALSE, raised |-> FALSE]

\* an INSERT OR IGNORE into app_settings: a row of the key stays as it is
insert_or_ignore_setting(rows, row) ==
    IF \E r \in rows : r.key = row.key THEN rows ELSE rows \cup {row}

\* INSERT OR REPLACE INTO app_settings (key is the PRIMARY KEY): the rows in
\* conflict with the new row are deleted, then it is inserted
insert_or_replace_setting(rows, row) ==
    { r \in rows : r.key # row.key } \cup {row}

\* whether the statement violates a constraint of the schema on this connection
Violates(conn, st) ==
    LET d == conn.data
    IN  CASE st.kind = "ins_product" ->
               st.sku \in d.products
          [] st.kind = "ins_sale" -> st.id \in d.sales
          [] st.kind = "ins_item" ->
               \/ \E i \in d.sale_items : i.id = st.id
               \/ conn.fk /\ st.sale_id \notin d.sales
          [] OTHER -> FALSE

\* the rows after the statement
Apply(conn, st) ==
    LET d == conn.data
    IN  CASE st.kind = "ins_product" ->
               [d EXCEPT !.products = @ \cup {st.sku}]
          [] st.kind = "ins_sale" -> [d EXCEPT !.sales = @ \cup {st.id}]
          [] st.kind = "ins_item" ->
               [d EXCEPT !.sale_items = @ \cup {[id |-> st.id, sale_id |-> st.sale_id]}]
          [] st.kind = "del_sale" ->
               [d EXCEPT !.sales = @ \ {st.id},
                         !.sale_items = IF conn.fk
                                        THEN { i \in @ : i.sale_id # st.id }
                                        ELSE @]
          [] st.kind = "del_item" ->
               [d EXCEPT !.sale_items = { i \in @ : i.id # st.id }]
          [] st.kind = "upsert_setting" ->
               [d EXCEPT !.app_settings =
                   insert_or_replace_setting(
                       @, [key |-> st.key, value |-> st.value, updated_at |-> st.now])]

\* conn.commit()
commit(conn) == [conn EXCEPT !.committed = conn.data, !.in_txn = FALSE]

\* conn.rollback()
rollback(conn) == [conn EXCEPT !.data = conn.committed, !.in_txn = FALSE]

\* cursor.execute(query, params): raises IntegrityError on a violated constraint
execute(conn, st) ==
    IF Violates(conn, st)
    THEN [conn EXCEPT !.raised = TRUE]
    ELSE LET done == [conn EXCEPT !.data = Apply(conn, st), !.in_txn = TRUE]
         IN  IF conn.autocommit THEN commit(done) ELSE done

\* cursor.executemany(query, params_list): stops at the first statement that raises
RECURSIVE executemany(_, _)
executemany(conn, params_list) ==
    IF params_list = <<>> \/ conn.raised
    THEN conn
    ELSE executemany(execute(conn, Head(params_list)), Tail(params_list))

\* the index of the statement that raised, 0 if none did
RECURSIVE FailedAt(_, _, _)
FailedAt(conn, params_list, n) ==
    IF params_list = <<>> THEN 0
    ELSE IF Violates(conn, Head(params_list)) THEN n
    ELSE FailedAt(execute(conn, Head(params_list)), Tail(params_list), n + 1)

\* conn.execute("PRAGMA foreign_keys = ON"): no effect inside a transaction
pragma_foreign_keys(conn) == [conn EXCEPT !.fk = @ \/ ~conn.in_txn]

\* a scope that commits by itself when its body did not raise
get_connection_exit_commits(conn) ==
    IF conn.raised THEN rollback(conn).committed ELSE conn.data

\* get_connection, leaving the with block: rollback if the body raised, then
\* close; the file keeps what the connection committed
get_connection_exit(conn) ==
    IF conn.raised THEN rollback(conn).committed ELSE conn.committed

\* execute_query(query, params) with fetch=False: execute, then commit, inside
\* the get_connection scope
execute_query(file, st) ==
    LET c1 == execute(sqlite_connect(file), st)
        c2 == IF c1.raised THEN c1 ELSE commit(c1)
    IN  [file |-> get_connection_exit(c2), raised |-> c1.raised, data |-> c1.data]

\* execute_many(query, params_list): executemany, then commit, inside the
\* get_connection scope
execute_many(file, params_list) ==
    LET c1 == executemany(sqlite_connect(file), params_list)
        c2 == IF c1.raised THEN c1 ELSE commit(c1)
    IN  [file |-> get_connection_exit(c2), raised |-> c1.raised, data |-> c1.data]

NoDbCall ==
    [op |-> "init", kind |-> "none", n |-> 0, failed_at |-> 0, raised |-> FALSE,
     committed |-> FALSE, pre |-> EmptyDb, data |-> EmptyDb]

ExecuteQuery ==
    /\ scope = <<>>
    /\ \E st \in Stmts :
        LET r == execute_query(db, st)
        IN  /\ db' = r.file
            /\ dbcall' = [op |-> "execute_query", kind |-> st.kind, n |-> 1,
                          failed_at |-> IF r.raised THEN 1 ELSE 0, raised |-> r.raised,
                          committed |-> ~r.raised, pre |-> db, data |-> r.data]
    /\ UNCHANGED scope

ExecuteMany ==
    /\ scope = <<>>
    /\ \E kind \in StmtKinds : \E params_list \in Batches(kind) :
        LET r == execute_many(db, params_list)
        IN  /\ db' = r.file
            /\ dbcall' = [op |-> "execute_many", kind |-> kind, n |-> Len(params_list),
                          failed_at |-> FailedAt(sqlite_connect(db), params_list, 1),
                          raised |-> r.raised, committed |-> ~r.raised,
                          pre |-> db, data |-> r.data]
    /\ UNCHANGED scope

\* with self.get_connection() as conn: the scope opens
ScopeEnter ==
    /\ scope = <<>>
    /\ scope' = <<sqlite_connect(db)>>
    /\ dbcall' = [NoDbCall EXCEPT !.op = "scope_open", !.kind = "scope", !.pre = db, !.data = db]
    /\ UNCHANGED db

\* the body issues PRAGMA foreign_keys = ON, as _init_database does
ScopePragma ==
    /\ scope # <<>>
    /\ scope' = <<pragma_foreign_keys(scope[1])>>
    /\ UNCHANGED <<db, dbcall>>

\* the body executes one statement; if it raises, the scope is left through
\* its exception handler and the error propagates to the caller
ScopeExecute ==
    /\ scope # <<>>
    /\ dbcall.n < MaxBatch
    /\ \E st \in Stmts :
        LET c1 == execute(scope[1], st)
        IN  IF c1.raised
            THEN /\ db' = get_connection_exit(c1)
                 /\ scope' = <<>>
                 /\ dbcall' = [dbcall EXCEPT !.op = "scope", !.n = @ + 1, !.failed_at = dbcall.n + 1,
                                             !.raised = TRUE, !.data = c1.data]
            ELSE /\ db' = c1.committed
                 /\ scope' = <<c1>>
                 /\ dbcall' = [dbcall EXCEPT !.n = @ + 1, !.data = c1.data]

\* the body ends without raising, with or without a final conn.commit()
ScopeExit ==
    /\ scope # <<>>
    /\ \E commits \in BOOLEAN :
        LET c1 == IF commits THEN commit(scope[1]) ELSE scope[1]
        IN  /\ db' = get_connection_exit(c1)
            /\ dbcall' = [dbcall EXCEPT !.op = "scope", !.committed = commits, !.data = scope[1].data]
    /\ scope' = <<>>

\* Python values given to set_setting
PyInt(n) == [int |-> n]

PyStr(s) == [str |-> s]

PyBool(b) == [bool |-> b]

PyNone == [none |-> TRUE]

\* str(value)
str_of(value) ==
    CASE "int" \in DOMAIN value ->
           <<"0", "1", "2", "3", "4", "5", "6", "7", "8", "9">>[value.int + 1]
      [] "bool" \in DOMAIN value -> IF value.bool THEN "True" ELSE "False"
      [] "none" \in DOMAIN value -> "None"
      [] OTHER -> value.str

SettingKeys == {"theme", "last_sync"}

SettingValues ==
    {PyInt(0), PyInt(1), PyStr("1"), PyStr(""), PyBool(TRUE), PyNone}

\* what CURRENT_TIMESTAMP reads
Timestamps == {1, 2}

\* the default the callers pass to get_setting
DefaultSetting == PyInt(0)

\* DatabaseManager.set_setting
set_setting(file, key, value, now) ==
    execute_query(file, [kind |-> "upsert_setting", key |-> key,
                         value |-> str_of(value), now |-> now])

\* execute_query(query, params, fetch=True) of the SELECT of get_setting:
\* the rows fetched; nothing is written
select_setting(file, key) ==
    { r \in sqlite_connect(file).data.app_settings : r.key = key }

\* DatabaseManager.get_setting
get_setting(file, key, default) ==
    IF select_setting(file, key) # {}
    THEN PyStr((CHOOSE r \in select_setting(file, key) : TRUE).value)
    ELSE default

NoSettings == [op |-> "init", key |-> "", result |-> <<>>,
               last |-> [k \in SettingKeys |-> <<>>]]

SetSetting ==
    /\ scope = <<>>
    /\ \E key \in SettingKeys, value \in SettingValues, now \in Timestamps :
         \E r \in {set_setting(db, key, value, now)} :
            /\ db' = r.file
            /\ dbcall' = [op |-> "execute_query", kind |-> "upsert_setting", n |-> 1,
                          failed_at |-> IF r.raised THEN 1 ELSE 0, raised |-> r.raised,
                          committed |-> ~r.raised, pre |-> db, data |-> r.data]
            /\ settings' = [op |-> "set_setting", key |-> key, result |-> <<>>,
                            last |-> [settings.last EXCEPT ![key] = <<value>>]]
    /\ UNCHANGED scope

GetSetting ==
    /\ scope = <<>>
    /\ \E key \in SettingKeys :
         settings' = [settings EXCEPT
                         !.op = "get_setting", !.key = key,
                         !.result = <<get_setting(db, key, DefaultSetting)>>]
    /\ UNCHANGED <<db, scope, dbcall>>

(***************************************************************************)
(* Records: models/base.py, models/cashier_session.py, models/sale.py.     *)
(* Amounts are integers (cents).  An Optional field is <<>> (None) or <<v>>.*)
(***************************************************************************)
\* largest amount of one sale given to add_sale / cancel_sale
MaxAmount == 1

\* largest running total, and largest counter, the session is followed to
MaxTotal == 2

\* most items a sale is followed to
MaxItems == 2

\* BaseModel.Config.validate_assignment: self.<field> = value validates the
\* value against the field's constraint and raises, leaving the field as it
\* was, if it fails.  r is [o |-> object, raised |-> whether an earlier
\* assignment of the same method raised]; after a raise the rest of the
\* method body is skipped.
Assign(r, field, value, valid) ==
    IF r.raised THEN r
    ELSE IF valid THEN [r EXCEPT !.o = [@ EXCEPT ![field] = value]]
    ELSE [r EXCEPT !.raised = TRUE]

\* a field declared with ge=0
AssignGe0(r, field, value) == Assign(r, field, value, value >= 0)

Running(o) == [o |-> o, raised |-> FALSE]

\* payment_method.lower()
lower_method(payment_method) ==
    CASE payment_method = "CASH" -> "cash"
      [] payment_method = "Pix" -> "pix"
      [] OTHER -> payment_method

PaymentMethods == {"CASH", "credit_card", "pix", "check"}

\* the category total add_sale / cancel_sale distribute the amount to
CategoryField(payment_method) ==
    IF lower_method(payment_method) = "cash" THEN "total_cash_sales"
    ELSE IF lower_method(payment_method) \in {"credit_card", "debit_card"} THEN "total_card_sales"
    ELSE IF lower_method(payment_method) = "pix" THEN "total_pix_sales"
    ELSE "total_other_sales"

\* opened_at, on the clock datetime.now() reads
OpenedAt == 1

\* what datetime.now() can read when close_session runs: the tick of
\* opened_at itself, or a later one
Clock == {OpenedAt, OpenedAt + 1}

\* validate_closed_at
closed_at_valid(opened_at, v) == ~(v <= opened_at)

\* CashierSession(user_id=..., opening_cash=..., synced=...)
NewSession(opening_cash, synced) ==
    [status |-> "open", opened_at |-> OpenedAt, opening_cash |-> opening_cash,
     total_sales |-> 0, total_cash_sales |-> 0, total_card_sales |-> 0,
     total_pix_sales |-> 0, total_other_sales |-> 0,
     sales_count |-> 0, cancelled_sales_count |-> 0,
     closing_cash |-> <<>>, expected_cash |-> <<>>, cash_difference |-> <<>>,
     closed_at |-> <<>>, closing_notes |-> <<>>, synced |-> synced]

\* CashierSession.add_sale
add_sale(s, amount, payment_method) ==
    LET f  == CategoryField(payment_method)
        r1 == AssignGe0(Running(s), "total_sales", s.total_sales + amount)
        r2 == AssignGe0(r1, "sales_count", r1.o.sales_count + 1)
    IN  AssignGe0(r2, f, r2.o[f] + amount)

\* CashierSession.cancel_sale
cancel_sale(s, amount, payment_method) ==
    LET f  == CategoryField(payment_method)
        r1 == AssignGe0(Running(s), "total_sales", s.total_sales - amount)
        r2 == AssignGe0(r1, "sales_count", r1.o.sales_count - 1)
        r3 == AssignGe0(r2, "cancelled_sales_count", r2.o.cancelled_sales_count + 1)
    IN  AssignGe0(r3, f, r3.o[f] - amount)

\* a variant of can_close that lets a session of any status be closed
can_close_any(s) == TRUE

\* CashierSession.can_close
can_close(s) == s.status = "open"

\* CashierSession.calculate_expected_cash
calculate_expected_cash(s) == s.opening_cash + s.total_cash_sales

\* CashierSession.calculate_difference
calculate_difference(s) ==
    IF s.closing_cash # <<>>
    THEN <<s.closing_cash[1] - calculate_expected_cash(s)>>
    ELSE <<>>

\* CashierSession.close_session; now is what datetime.now() reads
close_session(s, closing_cash, notes, now) ==
    IF ~can_close(s)
    THEN [o |-> s, raised |-> TRUE]
    ELSE
      LET r1 == Assign(Running(s), "closing_cash", <<closing_cash>>, closing_cash >= 0)
          r2 == Assign(r1, "expected_cash", <<calculate_expected_cash(r1.o)>>,
                       calculate_expected_cash(r1.o) >= 0)
          r3 == Assign(r2, "cash_difference", calculate_difference(r2.o), TRUE)
          r4 == Assign(r3, "closed_at", <<now>>, closed_at_valid(r3.o.opened_at, now))
          r5 == Assign(r4, "closing_notes", notes, TRUE)
      IN  Assign(r5, "status", "closed", TRUE)

\* CashierSession.suspend_session
suspend_session(s, notes) ==
    IF s.status = "open"
    THEN LET r1 == Assign(Running(s), "status", "suspended", TRUE)
         IN  IF notes # <<>> THEN Assign(r1, "closing_notes", notes, TRUE) ELSE r1
    ELSE Running(s)

\* a resume that reopens the session whatever its status
resume_session_any(s) == Assign(Running(s), "status", "open", TRUE)

\* CashierSession.resume_session
resume_session(s) ==
    IF s.status = "suspended"
    THEN Assign(Running(s), "status", "open", TRUE)
    ELSE Running(s)

Amounts == (-1)..MaxAmount

Notes == {<<>>, <<"note">>}

\* the running totals and the counters within the range the model follows
SessionInRange(s) ==
    /\ s.total_sales <= MaxTotal
    /\ s.total_cash_sales + s.total_card_sales
         + s.total_pix_sales + s.total_other_sales <= MaxTotal
    /\ s.sales_count + s.cancelled_sales_count <= MaxTotal

NoSessCall == [op |-> "init", raised |-> FALSE]

SessStep(op, r) ==
    /\ SessionInRange(r.o)
    /\ sess' = r.o
    /\ sesscall' = [op |-> op, raised |-> r.raised]

AddSale ==
    \E amount \in Amounts, payment_method \in PaymentMethods :
        SessStep("add_sale", add_sale(sess, amount, payment_method))

CancelSale ==
    \E amount \in Amounts, payment_method \in PaymentMethods :
        SessStep("cancel_sale", cancel_sale(sess, amount, payment_method))

CloseSession ==
    \E closing_cash \in (-1)..MaxAmount, notes \in Notes, now \in Clock :
        SessStep("close_session", close_session(sess, closing_cash, notes, now))

SuspendSession ==
    \E notes \in Notes : SessStep("suspend_session", suspend_session(sess, notes))

ResumeSession == SessStep("resume_session", resume_session(sess))

\* number of add_sale / cancel_sale calls a counted session is followed for
MaxCalls == 4

NoLedger == [add_calls |-> 0, add_returns |-> 0, cancel_calls |-> 0, cancel_returns |-> 0]

CallsMade == ledger.add_calls + ledger.cancel_calls

\* add_sale, counted: one more call, and one more return unless it raised
CountedAddSale ==
    /\ CallsMade < MaxCalls
    /\ AddSale
    /\ ledger' = [ledger EXCEPT !.add_calls = @ + 1,
                                !.add_returns = IF sesscall'.raised THEN @ ELSE @ + 1]

\* cancel_sale, counted likewise
CountedCancelSale ==
    /\ CallsMade < MaxCalls
    /\ CancelSale
    /\ ledger' = [ledger EXCEPT !.cancel_calls = @ + 1,
                                !.cancel_returns = IF sesscall'.raised THEN @ ELSE @ + 1]

(***************************************************************************)
(* Sale and SaleItem                                                       *)
(***************************************************************************)
\* SaleItem(...): the items the caller builds.  total_price is validated
\* against unit_price * quantity; discount_amount and tax_amount are free
\* within ge=0.  tax_amount is Optional.
Item(unit_price, quantity, discount_amount, tax_amount) ==
    [unit_price |-> unit_price, quantity |-> quantity, weight |-> <<>>,
     total_price |-> unit_price * quantity,
     discount_amount |-> discount_amount, tax_amount |-> tax_amount]

ItemCatalog ==
    { Item(200, 1, 0, <<>>),
      Item(200, 2, 100, <<20>>),
      Item(400, 1, 600, <<>>),
      Item(200, 1, 200, <<>>) }

Percentages == {-50, 0, 50, 100, 150}

\* Sale(payment_method=..., amount_paid=..., synced=...)
NewSale(amount_paid, synced) ==
    [items |-> <<>>, subtotal |-> 0, discount_amount |-> 0, discount_percentage |-> <<>>,
     tax_amount |-> 0, total_amount |-> 0, amount_paid |-> amount_paid,
     change_amount |-> 0, status |-> "pending", synced |-> synced]

RECURSIVE SumTotalPrice(_)
SumTotalPrice(items) ==
    IF items = <<>> THEN 0 ELSE Head(items).total_price + SumTotalPrice(Tail(items))

RECURSIVE SumDiscount(_)
SumDiscount(items) ==
    IF items = <<>> THEN 0 ELSE Head(items).discount_amount + SumDiscount(Tail(items))

\* sum(item.tax_amount or 0 for item in self.items)
RECURSIVE SumTax(_)
SumTax(items) ==
    IF items = <<>> THEN 0
    ELSE (IF Head(items).tax_amount = <<>> THEN 0 ELSE Head(items).tax_amount[1])
         + SumTax(Tail(items))

\* (self.subtotal * self.discount_percentage) / 100; the catalog prices and
\* the percentages make the quotient an integer
additional_discount(subtotal, discount_percentage) ==
    IF discount_percentage # <<>> /\ discount_percentage[1] # 0
    THEN (subtotal * discount_percentage[1]) \div 100
    ELSE 0

\* Sale.calculate_totals, continuing the method that called it
calculate_totals(r) ==
    LET r1 == AssignGe0(r, "subtotal", SumTotalPrice(r.o.items))
        r2 == AssignGe0(r1, "discount_amount", SumDiscount(r1.o.items))
        r3 == AssignGe0(r2, "tax_amount", SumTax(r2.o.items))
        r4 == AssignGe0(r3, "discount_amount",
                        r3.o.discount_amount
                          + additional_discount(r3.o.subtotal, r3.o.discount_percentage))
        r5 == AssignGe0(r4, "total_amount",
                        r4.o.subtotal - r4.o.discount_amount + r4.o.tax_amount)
    IN  AssignGe0(r5, "change_amount",
                  IF r5.o.amount_paid > r5.o.total_amount
                  THEN r5.o.amount_paid - r5.o.total_amount
                  ELSE 0)

\* Sale.add_item: the list is appended to in place, then the totals recomputed
add_item(s, item) ==
    calculate_totals(Running([s EXCEPT !.items = Append(@, item)]))

RemoveAt(items, i) == SubSeq(items, 1, i - 1) \o SubSeq(items, i + 1, Len(items))

\* Sale.remove_item; index counts from 0
remove_item(s, index) ==
    IF 0 <= index /\ index < Len(s.items)
    THEN calculate_totals(Running([s EXCEPT !.items = RemoveAt(@, index + 1)]))
    ELSE Running(s)

\* Sale.validate_items: the validator of the items field
validate_items(v) == v # <<>>

\* Sale.clear_items: self.items = [] is a validated assignment
clear_items(s) ==
    calculate_totals(Assign(Running(s), "items", <<>>, validate_items(<<>>)))

\* Sale.apply_discount
apply_discount(s, percentage) ==
    IF 0 <= percentage /\ percentage <= 100
    THEN calculate_totals(Assign(Running(s), "discount_percentage", <<percentage>>, TRUE))
    ELSE Running(s)

\* a variant of can_complete that does not look at the amount paid
can_complete_unpaid(s) ==
    /\ Len(s.items) > 0
    /\ s.total_amount > 0
    /\ s.status = "pending"

\* Sale.can_complete
can_complete(s) ==
    /\ Len(s.items) > 0
    /\ s.total_amount > 0
    /\ s.amount_paid >= s.total_amount
    /\ s.status = "pending"

\* Sale.complete
complete(s) ==
    IF can_complete(s) THEN Assign(Running(s), "status", "completed", TRUE) ELSE Running(s)

\* Sale.cancel
cancel(s) == Assign(Running(s), "status", "cancelled", TRUE)

NoSaleCall == [op |-> "init", raised |-> FALSE]

SaleStep(op, r) ==
    /\ sale' = r.o
    /\ salecall' = [op |-> op, raised |-> r.raised]

AddItem ==
    /\ Len(sale.items) < MaxItems
    /\ \E item \in ItemCatalog : SaleStep("add_item", add_item(sale, item))

RemoveItem ==
    \E index \in (-1)..MaxItems : SaleStep("remove_item", remove_item(sale, index))

ClearItems == SaleStep("clear_items", clear_items(sale))

ApplyDiscount ==
    \E percentage \in Percentages : SaleStep("apply_discount", apply_discount(sale, percentage))

Complete == SaleStep("complete", complete(sale))

Cancel == SaleStep("cancel", cancel(sale))

\* SaleItem.validate_total_price: v is the total_price given, values the
\* fields validated before it.  Amounts are in cents, so the margin of
\* Decimal('0.01') is 1.
validate_total_price(v, values) ==
    LET has(f) == f \in DOMAIN values
        gross == IF has("weight") /\ values.weight # <<>> /\ values.weight[1] # 0
                 THEN values.unit_price * values.weight[1]
                 ELSE values.unit_price * values.quantity
        expected == IF has("discount_amount") THEN gross - values.discount_amount ELSE gross
    IN  (has("unit_price") /\ has("quantity")) => ~(Abs(v - expected) > 1)

\* the fields a validator of total_price is given when the item is
\* constructed: those declared before total_price
ValuesAtConstruction(item) ==
    [f \in {"quantity", "weight", "unit_price"} |-> item[f]]

\* the fields it is given when total_price is assigned on an existing item
\* (validate_assignment): every other field of the item
ValuesAtAssignment(item) ==
    [f \in DOMAIN item \ {"total_price"} |-> item[f]]

\* SaleItem(...) of a product sold by weight: quantity 1, and a total_price
\* that passes the validator at construction
WeighedItem(unit_price, weight, discount_amount, tax_amount) ==
    [unit_price |-> unit_price, quantity |-> 1, weight |-> <<weight>>,
     total_price |-> unit_price * weight,
     discount_amount |-> discount_amount, tax_amount |-> tax_amount]

WeighedCatalog == { WeighedItem(200, 2, 100, <<>>) }

\* item.total_price = v on the item at items[index] (index from 0): a
\* validated assignment (ge=0, then validate_total_price)
set_total_price(s, index, v) ==
    IF 0 <= index /\ index < Len(s.items)
    THEN IF v >= 0 /\ validate_total_price(v, ValuesAtAssignment(s.items[index + 1]))
         THEN Running([s EXCEPT !.items[index + 1].total_price = v])
         ELSE [o |-> s, raised |-> TRUE]
    ELSE [o |-> s, raised |-> TRUE]

\* the total_price values a caller assigns to an item: the price before the
\* item's discount, the price after it, and one and two cents above that
TotalPrices(item) ==
    LET gross == IF item.weight # <<>> THEN item.unit_price * item.weight[1]
                 ELSE item.unit_price * item.quantity
    IN  {gross, gross - item.discount_amount, gross - item.discount_amount + 1,
         gross - item.discount_amount + 2}

AddWeighedItem ==
    /\ Len(sale.items) < MaxItems
    /\ \E item \in WeighedCatalog :
          /\ validate_total_price(item.total_price, ValuesAtConstruction(item))
          /\ SaleStep("add_item", add_item(sale, item))

SetTotalPrice ==
    \E index \in 0..(Len(sale.items) - 1) : \E v \in TotalPrices(sale.items[index + 1]) :
        SaleStep("set_total_price", set_total_price(sale, index, v))

CalculateTotals == SaleStep("calculate_totals", calculate_totals(Running(sale)))

(***************************************************************************)
(* Configuration: core/config.py, utils/helpers.py.  A JSON value is a     *)
(* leaf [leaf |-> v] or a dict [dict |-> f], f a function from its keys to *)
(* JSON values.                                                            *)
(***************************************************************************)
\* how many times in a row an override is merged into the same base
MaxMerges == 2

Leaf(v) == [leaf |-> v]

Dict(f) == [dict |-> f]

\* isinstance(x, dict)
is_dict(x) == "dict" \in DOMAIN x

\* the dicts with keys among keys and values among values
DictsOver(keys, values) ==
    { Dict(f) : f \in UNION { [K -> values] : K \in SUBSET keys } }

\* largest leaf value of a configuration file
MaxLeaf == 2

LeafValues == { Leaf(v) : v \in 1..MaxLeaf }

NestedKeys == {"b", "c"}

TopKeys == {"a", "b"}

\* the dicts of a configuration file: two levels of keys
JsonDicts == DictsOver(TopKeys, LeafValues \cup DictsOver(NestedKeys, LeafValues))

\* base[key] = value
SetItem(d, key, value) ==
    Dict([k \in DOMAIN d.dict \cup {key} |-> IF k = key THEN value ELSE d.dict[k]])

\* a merge that replaces the value at every key of the override
shallow_merge(base, override) ==
    Dict([k \in DOMAIN base.dict \cup DOMAIN override.dict |->
            IF k \in DOMAIN override.dict THEN override.dict[k] ELSE base.dict[k]])

\* a merge that adds a leaf of the override to the leaf the base has there
sum_merge(base, override) ==
    Dict([k \in DOMAIN base.dict \cup DOMAIN override.dict |->
            IF k \notin DOMAIN override.dict THEN base.dict[k]
            ELSE IF k \in DOMAIN base.dict /\ ~is_dict(base.dict[k])
                      /\ ~is_dict(override.dict[k])
                 THEN Leaf(base.dict[k].leaf + override.dict[k].leaf)
                 ELSE override.dict[k]])

\* ConfigManager._deep_merge: base after the loop over override.items(),
\* keys being the keys still to visit
RECURSIVE deep_merge_items(_, _, _)
deep_merge_items(base, override, keys) ==
    IF keys = {} THEN base
    ELSE LET key   == CHOOSE k \in keys : TRUE
             value == override.dict[key]
         IN  IF key \in DOMAIN base.dict /\ is_dict(base.dict[key]) /\ is_dict(value)
             THEN deep_merge_items(
                      SetItem(base, key,
                              deep_merge_items(base.dict[key], value, DOMAIN value.dict)),
                      override, keys \ {key})
             ELSE deep_merge_items(SetItem(base, key, value), override, keys \ {key})

deep_merge(base, override) == deep_merge_items(base, override, DOMAIN override.dict)

\* helpers.deep_merge_dicts: result after the loop, starting from base.copy()
RECURSIVE deep_merge_dicts_items(_, _, _)
deep_merge_dicts_items(result, override, keys) ==
    IF keys = {} THEN result
    ELSE LET key   == CHOOSE k \in keys : TRUE
             value == override.dict[key]
         IN  IF key \in DOMAIN result.dict /\ is_dict(result.dict[key]) /\ is_dict(value)
             THEN deep_merge_dicts_items(
                      SetItem(result, key,
                              deep_merge_dicts_items(result.dict[key], value,
                                                     DOMAIN value.dict)),
                      override, keys \ {key})
             ELSE deep_merge_dicts_items(SetItem(result, key, value), override, keys \ {key})

deep_merge_dicts(base, override) ==
    deep_merge_dicts_items(base, override, DOMAIN override.dict)

NoMerge == [fn |-> "init", base |-> Dict(<<>>), override |-> Dict(<<>>),
            first |-> <<>>, result |-> <<>>, times |-> 0]

\* the base of the next application: the given base, then the last result
MergeBase == IF merge.times = 0 THEN merge.base ELSE merge.result[1]

MergeStep(fn, r) ==
    /\ merge.fn \in {"init", fn}
    /\ merge.times < MaxMerges
    /\ merge' = [merge EXCEPT !.fn = fn, !.result = <<r>>, !.times = @ + 1,
                              !.first = IF merge.times = 0 THEN <<r>> ELSE @]

DeepMerge == MergeStep("_deep_merge", deep_merge(MergeBase, merge.override))

DeepMergeDicts == MergeStep("deep_merge_dicts", deep_merge_dicts(MergeBase, merge.override))

(***************************************************************************)
(* ConfigManager: core/config.py.  A key path is a str; the keys of the    *)
(* dicts are one-character strs.                                           *)
(***************************************************************************)
\* number of set() calls a ConfigManager is followed for
MaxSets == 1

\* s.split('.')
RECURSIVE split_dot(_, _)
split_dot(s, segment) ==
    IF s = <<>> THEN <<segment>>
    ELSE IF Head(s) = "." THEN <<segment>> \o split_dot(Tail(s), <<>>)
    ELSE split_dot(Tail(s), Append(segment, Head(s)))

split(s) == split_dot(s, <<>>)

\* the dict key a segment is
KeyOf(segment) == IF segment = <<>> THEN "" ELSE segment[1]

\* the files _load_all_configs lists, in its order
ConfigFiles == <<"api", "ui">>

\* what a file holds: nothing (no such file), text json.load rejects, or a
\* JSON value
Missing == [kind |-> "missing", value |-> Dict(<<>>)]

Malformed == [kind |-> "malformed", value |-> Dict(<<>>)]

Json(value) == [kind |-> "json", value |-> value]

NoFiles ==
    [dir |-> FALSE,
     base |-> [name \in {"api", "ui"} |-> Missing],
     local |-> [name \in {"api", "ui"} |-> Missing]]

\* the directories the model starts from.  A JSON file may hold a value that
\* is not an object.
ConfigDirs ==
    {NoFiles} \cup
    [dir : {TRUE},
     base : [api : {Missing, Malformed, Json(Leaf(1)),
                    Json(Dict([a |-> Dict([b |-> Leaf(1), c |-> Leaf(2)]), b |-> Leaf(1)]))},
             ui : {Missing, Json(Dict([b |-> Leaf(1)]))}],
     local : [api : {Missing, Malformed, Json(Leaf(1)),
                     Json(Dict([a |-> Dict([b |-> Leaf(2)]), c |-> Leaf(2)]))},
              ui : {Missing, Malformed}]]

\* a local override that, when it cannot be applied, takes the domain away
load_config_local_drops(configs, log, fs, name) ==
    IF fs.local[name].kind = "missing"
    THEN [configs |-> configs, log |-> log]
    ELSE IF fs.local[name].kind = "json" /\ is_dict(configs[name])
              /\ is_dict(fs.local[name].value)
    THEN [configs |-> [configs EXCEPT ![name] = deep_merge(@, fs.local[name].value)],
          log |-> log]
    ELSE [configs |-> [n \in DOMAIN configs \ {name} |-> configs[n]],
          log |-> log \cup {<<"error", name>>}]

\* ConfigManager._load_config, after the file was found and parsed: the
\* local override
load_config_local(configs, log, fs, name) ==
    IF fs.local[name].kind = "missing"
    THEN [configs |-> configs, log |-> log]
    ELSE IF fs.local[name].kind = "malformed"
    THEN [configs |-> configs, log |-> log \cup {<<"error", name>>}]
    ELSE IF is_dict(configs[name]) /\ is_dict(fs.local[name].value)
    THEN [configs |-> [configs EXCEPT ![name] = deep_merge(@, fs.local[name].value)],
          log |-> log]
    ELSE [configs |-> configs, log |-> log \cup {<<"error", name>>}]

\* ConfigManager._load_config
load_config(configs, log, fs, name) ==
    IF fs.base[name].kind = "missing"
    THEN [configs |-> configs, log |-> log \cup {<<"warning", name>>}]
    ELSE IF fs.base[name].kind = "malformed"
    THEN [configs |-> configs, log |-> log \cup {<<"error", name>>}]
    ELSE load_config_local(
             [n \in DOMAIN configs \cup {name} |->
                 IF n = name THEN fs.base[name].value ELSE configs[n]],
             log, fs, name)

\* ConfigManager._load_all_configs
RECURSIVE load_configs(_, _, _, _)
load_configs(configs, log, fs, names) ==
    IF names = <<>> THEN [configs |-> configs, log |-> log]
    ELSE LET r == load_config(configs, log, fs, Head(names))
         IN  load_configs(r.configs, r.log, fs, Tail(names))

load_all_configs(fs) ==
    IF ~fs.dir
    THEN [configs |-> <<>>, log |-> {<<"warning", "config_dir">>}]
    ELSE load_configs(<<>>, {}, fs, ConfigFiles)

\* the loop of get that gives the deepest value it reached
RECURSIVE get_walk_reached(_, _, _)
get_walk_reached(current, keys, default) ==
    IF keys = <<>> THEN current
    ELSE IF is_dict(current) /\ KeyOf(Head(keys)) \in DOMAIN current.dict
         THEN get_walk_reached(current.dict[KeyOf(Head(keys))], Tail(keys), default)
         ELSE current

\* ConfigManager.get: the loop over the keys
RECURSIVE get_walk(_, _, _)
get_walk(current, keys, default) ==
    IF keys = <<>> THEN current
    ELSE IF is_dict(current) /\ KeyOf(Head(keys)) \in DOMAIN current.dict
         THEN get_walk(current.dict[KeyOf(Head(keys))], Tail(keys), default)
         ELSE default

\* ConfigManager.get
get(configs, config_name, key_path, default) ==
    IF config_name \notin DOMAIN configs THEN default
    ELSE IF key_path = <<>> THEN configs[config_name]
    ELSE get_walk(configs[config_name], split(key_path), default)

\* a set that stores the value under the first key of the path
set_walk_first(current, keys, value) == SetItem(current, KeyOf(Head(keys)), value)

\* ConfigManager.set: the loop to the last but one level, and the assignment
RECURSIVE set_walk(_, _, _)
set_walk(current, keys, value) ==
    IF Len(keys) = 1 THEN SetItem(current, KeyOf(Head(keys)), value)
    ELSE LET key   == KeyOf(Head(keys))
             child == IF key \notin DOMAIN current.dict \/ ~is_dict(current.dict[key])
                      THEN Dict(<<>>)
                      ELSE current.dict[key]
         IN  SetItem(current, key, set_walk(child, Tail(keys), value))

\* ConfigManager.set.  On a configuration that is not a dict the first key
\* test or item assignment raises TypeError, before anything is stored.
set(configs, config_name, key_path, value) ==
    LET config == IF config_name \notin DOMAIN configs THEN Dict(<<>>)
                  ELSE configs[config_name]
    IN  IF ~is_dict(config)
        THEN [raised |-> TRUE, configs |-> configs]
        ELSE [raised |-> FALSE,
              configs |-> [n \in DOMAIN configs \cup {config_name} |->
                              IF n = config_name
                              THEN set_walk(config, split(key_path), value)
                              ELSE configs[n]]]

NoConfigManager == [constructed |-> FALSE, configs |-> <<>>, sets |-> 0]

\* the default the callers pass to get: no file and no set() holds it
DefaultValue == Leaf(0)

NoCfgCall == [op |-> "init", name |-> "", path |-> <<>>, value |-> <<>>,
              raised |-> FALSE, result |-> <<>>, log |-> {}]

ConfigNames == {"api", "ui", "custom"}

GetPaths ==
    { <<>>, <<"a">>, <<"b">>, <<"c">>, <<"a", ".", "b">>, <<"a", ".", "c">>,
      <<"b", ".", "c">>, <<"a", ".", "b", ".", "c">>, <<"c", ".", "a", ".", "b">> }

SetPaths ==
    { <<"b">>, <<"a", ".", "b">>, <<"b", ".", "c">>, <<"c", ".", "a", ".", "b">> }

SetValues == {Leaf(MaxLeaf), Dict([c |-> Leaf(1)])}

\* ConfigManager(config_dir)
ConstructConfig ==
    /\ ~cfg.constructed
    /\ \E r \in {load_all_configs(files)} :
         /\ cfg' = [cfg EXCEPT !.constructed = TRUE, !.configs = r.configs]
         /\ cfgcall' = [NoCfgCall EXCEPT !.op = "__init__", !.log = r.log]
    /\ UNCHANGED <<files, merge>>

\* ConfigManager.reload
Reload ==
    /\ cfg.constructed
    /\ \E r \in {load_all_configs(files)} :
         /\ cfg' = [cfg EXCEPT !.configs = r.configs]
         /\ cfgcall' = [NoCfgCall EXCEPT !.op = "reload", !.log = r.log]
    /\ UNCHANGED <<files, merge>>

Get ==
    /\ cfg.constructed
    /\ \E config_name \in ConfigNames, key_path \in GetPaths :
         cfgcall' = [NoCfgCall EXCEPT
                        !.op = "get", !.name = config_name, !.path = key_path,
                        !.result = <<get(cfg.configs, config_name, key_path, DefaultValue)>>,
                        !.log = IF config_name \in DOMAIN cfg.configs THEN {}
                                ELSE {<<"warning", config_name>>}]
    /\ UNCHANGED <<files, cfg, merge>>

Set ==
    /\ cfg.constructed
    /\ cfg.sets < MaxSets
    /\ \E config_name \in {"api", "custom"}, key_path \in SetPaths, value \in SetValues :
         \E r \in {set(cfg.configs, config_name, key_path, value)} :
            /\ cfg' = [cfg EXCEPT !.configs = r.configs, !.sets = @ + 1]
            /\ cfgcall' = [NoCfgCall EXCEPT
                              !.op = "set", !.name = config_name, !.path = key_path,
                              !.value = <<value>>, !.raised = r.raised]
    /\ UNCHANGED <<files, merge>>

(***************************************************************************)
(* Retry wrapper: utils/helpers.py retry_on_exception                      *)
(***************************************************************************)
\* the largest max_attempts a wrapper is built with
MaxAttempts == 3

\* what one invocation of the wrapped function does: it returns, or it raises
\* an exception of one of these classes
Raisable == {"ValueError", "OSError", "KeyboardInterrupt"}

FuncOutcomes == {"return"} \cup Raisable

\* isinstance(e, cls): every class here but KeyboardInterrupt derives from Exception
isinstance(e, cls) == cls = e \/ (cls = "Exception" /\ e # "KeyboardInterrupt")

\* `except exceptions as e` catches e
Caught(e, exceptions) == \E i \in 1..Len(exceptions) : isinstance(e, exceptions[i])

\* the `exceptions` tuples a wrapper is built with; the first is the default
ExceptionTuples == {<<"Exception">>, <<"ValueError">>, <<"ValueError", "OSError">>}

\* no call of the wrapper yet
NoRetry ==
    [max_attempts |-> 0, delay |-> 0, backoff_factor |-> 1, exceptions |-> <<"Exception">>,
     at |-> "idle", attempt |-> 0, current_delay |-> 0, outcomes |-> <<>>]

\* wrapper(*args) is entered: current_delay = delay, and the loop starts at attempt 0
wrapper_enter(max_attempts, delay, backoff_factor, exceptions) ==
    [max_attempts |-> max_attempts, delay |-> delay, backoff_factor |-> backoff_factor,
     exceptions |-> exceptions, at |-> "loop", attempt |-> 0, current_delay |-> delay,
     outcomes |-> <<>>]

\* the except clause of one pass: an exception that is not listed propagates;
\* a listed one is re-raised on the last attempt, else the wrapper sleeps,
\* multiplies the delay and goes to the next attempt
except_clause(r, e) ==
    IF ~Caught(e, r.exceptions) THEN [r EXCEPT !.at = "raised"]
    ELSE IF r.attempt = r.max_attempts - 1 THEN [r EXCEPT !.at = "raised"]
    ELSE [r EXCEPT !.current_delay = r.current_delay * r.backoff_factor,
                   !.attempt = r.attempt + 1]

\* one pass of `for attempt in range(max_attempts)`: func is invoked
wrapper_attempt(r, outcome) ==
    IF outcome = "return"
    THEN [r EXCEPT !.at = "returned", !.outcomes = Append(r.outcomes, outcome)]
    ELSE except_clause([r EXCEPT !.outcomes = Append(r.outcomes, outcome)], outcome)

\* the statement after the loop, reached when range(max_attempts) is used up:
\* func is invoked outside any try
wrapper_after_loop(r, outcome) ==
    [r EXCEPT !.at = IF outcome = "return" THEN "returned" ELSE "raised",
              !.outcomes = Append(r.outcomes, outcome)]

\* a decorated function is called
RetryCall ==
    /\ retry.at # "loop"
    /\ \E max_attempts \in 0..MaxAttempts, delay \in {0, 1}, backoff_factor \in {1, 2},
          exceptions \in ExceptionTuples :
          retry' = wrapper_enter(max_attempts, delay, backoff_factor, exceptions)

\* the loop makes one pass
RetryAttempt ==
    /\ retry.at = "loop"
    /\ retry.attempt < retry.max_attempts
    /\ \E outcome \in FuncOutcomes : retry' = wrapper_attempt(retry, outcome)

\* the loop is over without a return or a raise
RetryAfterLoop ==
    /\ retry.at = "loop"
    /\ ~(retry.attempt < retry.max_attempts)
    /\ \E outcome \in FuncOutcomes : retry' = wrapper_after_loop(retry, outcome)

(***************************************************************************)
(* Two threads in read_weight() on one driver.  Each step is one statement *)
(* of the method (toledo.py 122-162, filizola.py 119-160); the threads     *)
(* share the driver object and the input buffer of its serial port.  The   *)
(* device answers every command it receives, at once, with a well-formed   *)
(* line; readline() on an empty buffer returns nothing when its timeout    *)
(* ends.                                                                   *)
(***************************************************************************)
Threads == {1, 2}

\* the well-formed lines the device answers a read command with: a stable
\* gross weight in the vendor's frame
DeviceAnswers(brand) ==
    IF brand = "toledo"
    THEN { <<"S", "T", ",", "G", "S", ",", "+", "0", "0", "0", "1", "2", ".", "3", "4", "5", "k", "g", "CR", "LF">>,
           <<"S", "T", ",", "G", "S", ",", "+", "0", ".", "0", "0", "5", "k", "g">> }
    ELSE { <<"S", "0", "0", "0", ".", "5", "0", "0">> }

\* what a read_weight() call returned: the weight, and the error it set
NoReturn == [weight |-> None, error |-> ""]

\* no thread has called yet
NoReaders ==
    [pc |-> [t \in Threads |-> "idle"],
     response |-> [t \in Threads |-> <<>>],
     returned |-> [t \in Threads |-> NoReturn],
     buffer |-> <<>>,
     overlapped |-> FALSE]

\* a call of thread t is between its first statement and its return
InCall(t) == readers.pc[t] \notin {"idle", "done"}

\* thread t calls read_weight(); the call overlaps when the other thread is
\* inside its own
ThreadCall(t) ==
    /\ readers.pc[t] = "idle"
    /\ readers' = [readers EXCEPT !.pc[t] = "check",
                                  !.overlapped = @ \/ \E u \in Threads \ {t} : InCall(u)]
    /\ UNCHANGED scale

\* if not self.is_connected(): self.set_error(...); return None
ThreadCheck(t) ==
    /\ readers.pc[t] = "check"
    /\ IF is_connected(scale)
       THEN /\ readers' = [readers EXCEPT !.pc[t] = "busy"]
            /\ UNCHANGED scale
       ELSE /\ scale' = set_error(scale, "Balanca nao conectada")
            /\ readers' = [readers EXCEPT !.pc[t] = "done",
                                          !.returned[t] = [weight |-> None,
                                                           error |-> "Balanca nao conectada"]]

\* self.status = EquipmentStatus.BUSY
ThreadBusy(t) ==
    /\ readers.pc[t] = "busy"
    /\ scale' = [scale EXCEPT !.status = "busy"]
    /\ readers' = [readers EXCEPT !.pc[t] = "reset"]

\* self.serial_connection.reset_input_buffer()
ThreadReset(t) ==
    /\ readers.pc[t] = "reset"
    /\ readers' = [readers EXCEPT !.pc[t] = "write", !.buffer = <<>>]
    /\ UNCHANGED scale

\* self.serial_connection.write(command.encode()); the device answers
ThreadWrite(t) ==
    /\ readers.pc[t] = "write"
    /\ \E line \in DeviceAnswers(scale.brand) :
          readers' = [readers EXCEPT !.pc[t] = "read", !.buffer = Append(@, line)]
    /\ UNCHANGED scale

\* response = self.serial_connection.readline().decode().strip()
ThreadRead(t) ==
    /\ readers.pc[t] = "read"
    /\ readers' = [readers EXCEPT
                     !.pc[t] = "parse",
                     !.response[t] = IF readers.buffer = <<>> THEN <<>>
                                     ELSE strip(Head(readers.buffer)),
                     !.buffer = IF @ = <<>> THEN <<>> ELSE Tail(@)]
    /\ UNCHANGED scale

\* the rest of the try block: the response is parsed, and either the weight
\* is stored and returned with status Connected, or set_error is called
ThreadParse(t) ==
    /\ readers.pc[t] = "parse"
    /\ \E r \in {read_weight_response(scale, readers.response[t],
                                     parse_response(scale.brand, readers.response[t],
                                                    scale.is_stable))} :
          /\ scale' = r.s
          /\ readers' = [readers EXCEPT
                           !.pc[t] = "finally",
                           !.returned[t] = [weight |-> r.weight,
                                            error |-> IF r.weight = None
                                                      THEN "Resposta invalida da balanca"
                                                      ELSE ""]]

\* the finally block, then the return
ThreadFinally(t) ==
    /\ readers.pc[t] = "finally"
    /\ scale' = read_weight_finally([s |-> scale, weight |-> None, sent |-> TRUE]).s
    /\ readers' = [readers EXCEPT !.pc[t] = "done"]

(***************************************************************************)
(* Specifications                                                          *)
(***************************************************************************)
scalevars == <<scale, call, wait, manager, mgrcall>>

storevars == <<db, scope, dbcall, settings>>

sessvars == <<sess, sesscall, ledger>>

salevars == <<sale, salecall>>

confvars == <<merge, files, cfg, cfgcall>>

helpvars == <<retry, readers>>

\* each component as constructed
IdleManager == manager = NoManager /\ mgrcall = NoMgrCall

IdleScale == scale = ScaleConstructed("toledo") /\ call = NoCall /\ wait = NoWait /\ IdleManager

IdleStore == db = EmptyDb /\ scope = <<>> /\ dbcall = NoDbCall /\ settings = NoSettings

IdleSession == sess = NewSession(0, FALSE) /\ sesscall = NoSessCall /\ ledger = NoLedger

IdleSale == sale = NewSale(0, FALSE) /\ salecall = NoSaleCall

IdleConfig == merge = NoMerge /\ files = NoFiles /\ cfg = NoConfigManager /\ cfgcall = NoCfgCall

IdleHelpers == retry = NoRetry /\ readers = NoReaders

\* a driver as constructed, of either brand
InitScale ==
    /\ \E brand \in Brands : scale = ScaleConstructed(brand)
    /\ call = NoCall /\ wait = NoWait /\ IdleManager
    /\ IdleStore /\ IdleHelpers /\ IdleSession /\ IdleSale /\ IdleConfig

\* a driver in the Connected state, of either brand
InitScaleConnected ==
    /\ \E brand \in Brands : scale = ScaleConnected(brand)
    /\ call = NoCall /\ wait = NoWait /\ IdleManager
    /\ IdleStore /\ IdleHelpers /\ IdleSession /\ IdleSale /\ IdleConfig

NextScale ==
    \/ Connect /\ UNCHANGED <<wait, manager, mgrcall, storevars, sessvars, salevars, confvars, helpvars>>
    \/ Disconnect /\ UNCHANGED <<wait, manager, mgrcall, storevars, sessvars, salevars, confvars, helpvars>>
    \/ ReadWeight /\ UNCHANGED <<wait, manager, mgrcall, storevars, sessvars, salevars, confvars, helpvars>>
    \/ Tare /\ UNCHANGED <<wait, manager, mgrcall, storevars, sessvars, salevars, confvars, helpvars>>
    \/ Zero /\ UNCHANGED <<wait, manager, mgrcall, storevars, sessvars, salevars, confvars, helpvars>>

SpecScale == InitScale /\ [][NextScale]_vars

SpecScaleConnected == InitScaleConnected /\ [][NextScale]_vars

\* a driver of either brand, Connected or as constructed, and no wait yet
InitWait ==
    /\ \E brand \in Brands : scale \in {ScaleConnected(brand), ScaleConstructed(brand)}
    /\ call = NoCall /\ wait = NoWait /\ IdleManager
    /\ IdleStore /\ IdleHelpers /\ IdleSession /\ IdleSale /\ IdleConfig

NextWait ==
    \/ WaitStart /\ UNCHANGED <<manager, mgrcall, storevars, sessvars, salevars, confvars, helpvars>>
    \/ WaitPoll /\ UNCHANGED <<manager, mgrcall, storevars, sessvars, salevars, confvars, helpvars>>
    \/ WaitTimeout /\ UNCHANGED <<manager, mgrcall, storevars, sessvars, salevars, confvars, helpvars>>

\* the loop of a wait in progress runs on by itself: each pass and the final
\* return happen if they stay possible
SpecWait ==
    /\ InitWait /\ [][NextWait]_vars
    /\ WF_vars(WaitPoll /\ UNCHANGED <<manager, mgrcall, storevars, sessvars, salevars, confvars, helpvars>>)
    /\ WF_vars(WaitTimeout /\ UNCHANGED <<manager, mgrcall, storevars, sessvars, salevars, confvars, helpvars>>)

\* before ScaleManager(config) is called
InitManager == IdleScale /\ IdleStore /\ IdleHelpers /\ IdleSession /\ IdleSale /\ IdleConfig

NextManager ==
    \/ Construct /\ UNCHANGED <<storevars, sessvars, salevars, confvars, helpvars>>
    \/ MgrConnect /\ UNCHANGED <<storevars, sessvars, salevars, confvars, helpvars>>
    \/ MgrDisconnect /\ UNCHANGED <<storevars, sessvars, salevars, confvars, helpvars>>
    \/ MgrIsConnected /\ UNCHANGED <<storevars, sessvars, salevars, confvars, helpvars>>
    \/ MgrReadWeight /\ UNCHANGED <<storevars, sessvars, salevars, confvars, helpvars>>
    \/ MgrWaitForStableWeight /\ UNCHANGED <<storevars, sessvars, salevars, confvars, helpvars>>
    \/ MgrTare /\ UNCHANGED <<storevars, sessvars, salevars, confvars, helpvars>>
    \/ MgrZero /\ UNCHANGED <<storevars, sessvars, salevars, confvars, helpvars>>
    \/ MgrGetStatus /\ UNCHANGED <<storevars, sessvars, salevars, confvars, helpvars>>
    \/ WaitPoll /\ UNCHANGED <<manager, mgrcall, storevars, sessvars, salevars, confvars, helpvars>>
    \/ WaitTimeout /\ UNCHANGED <<manager, mgrcall, storevars, sessvars, salevars, confvars, helpvars>>

SpecManager == InitManager /\ [][NextManager]_vars

\* a manager built from a configuration that describes the connection
NextManagerConnection ==
    \/ ConstructConnection /\ UNCHANGED <<storevars, sessvars, salevars, confvars, helpvars>>
    \/ MgrConnect /\ UNCHANGED <<storevars, sessvars, salevars, confvars, helpvars>>
    \/ MgrDisconnect /\ UNCHANGED <<storevars, sessvars, salevars, confvars, helpvars>>
    \/ MgrReadWeight /\ UNCHANGED <<storevars, sessvars, salevars, confvars, helpvars>>

SpecManagerConnection == InitManager /\ [][NextManagerConnection]_vars

InitStore == IdleScale /\ IdleStore /\ IdleHelpers /\ IdleSession /\ IdleSale /\ IdleConfig

NextStore ==
    \/ ExecuteQuery /\ UNCHANGED <<settings, scalevars, sessvars, salevars, confvars, helpvars>>
    \/ ExecuteMany /\ UNCHANGED <<settings, scalevars, sessvars, salevars, confvars, helpvars>>
    \/ ScopeEnter /\ UNCHANGED <<settings, scalevars, sessvars, salevars, confvars, helpvars>>
    \/ ScopePragma /\ UNCHANGED <<settings, scalevars, sessvars, salevars, confvars, helpvars>>
    \/ ScopeExecute /\ UNCHANGED <<settings, scalevars, sessvars, salevars, confvars, helpvars>>
    \/ ScopeExit /\ UNCHANGED <<settings, scalevars, sessvars, salevars, confvars, helpvars>>

SpecStore == InitStore /\ [][NextStore]_vars

\* the settings table under set_setting / get_setting calls
NextSettings ==
    \/ SetSetting /\ UNCHANGED <<scalevars, sessvars, salevars, confvars, helpvars>>
    \/ GetSetting /\ UNCHANGED <<scalevars, sessvars, salevars, confvars, helpvars>>

SpecSettings == InitStore /\ [][NextSettings]_vars

InitSession ==
    /\ \E opening_cash \in {1}, synced \in {FALSE} : sess = NewSession(opening_cash, synced)
    /\ sesscall = NoSessCall
    /\ ledger = NoLedger
    /\ IdleScale /\ IdleStore /\ IdleHelpers /\ IdleSale /\ IdleConfig

NextSession ==
    \/ AddSale /\ UNCHANGED <<ledger, scalevars, storevars, salevars, confvars, helpvars>>
    \/ CancelSale /\ UNCHANGED <<ledger, scalevars, storevars, salevars, confvars, helpvars>>
    \/ CloseSession /\ UNCHANGED <<ledger, scalevars, storevars, salevars, confvars, helpvars>>
    \/ SuspendSession /\ UNCHANGED <<ledger, scalevars, storevars, salevars, confvars, helpvars>>
    \/ ResumeSession /\ UNCHANGED <<ledger, scalevars, storevars, salevars, confvars, helpvars>>

SpecSession == InitSession /\ [][NextSession]_vars

\* a session under add_sale / cancel_sale calls, with the calls counted
NextSessionCounted ==
    \/ CountedAddSale /\ UNCHANGED <<scalevars, storevars, salevars, confvars, helpvars>>
    \/ CountedCancelSale /\ UNCHANGED <<scalevars, storevars, salevars, confvars, helpvars>>

SpecSessionCounted == InitSession /\ [][NextSessionCounted]_vars

InitSale ==
    /\ \E amount_paid \in {0, 400}, synced \in BOOLEAN : sale = NewSale(amount_paid, synced)
    /\ salecall = NoSaleCall
    /\ IdleScale /\ IdleStore /\ IdleHelpers /\ IdleSession /\ IdleConfig

NextSale ==
    \/ AddItem /\ UNCHANGED <<scalevars, storevars, sessvars, confvars, helpvars>>
    \/ RemoveItem /\ UNCHANGED <<scalevars, storevars, sessvars, confvars, helpvars>>
    \/ ClearItems /\ UNCHANGED <<scalevars, storevars, sessvars, confvars, helpvars>>
    \/ ApplyDiscount /\ UNCHANGED <<scalevars, storevars, sessvars, confvars, helpvars>>
    \/ Complete /\ UNCHANGED <<scalevars, storevars, sessvars, confvars, helpvars>>
    \/ Cancel /\ UNCHANGED <<scalevars, storevars, sessvars, confvars, helpvars>>

SpecSale == InitSale /\ [][NextSale]_vars

\* a new sale with nothing paid yet
InitSaleItems ==
    /\ sale = NewSale(0, FALSE)
    /\ salecall = NoSaleCall
    /\ IdleScale /\ IdleStore /\ IdleHelpers /\ IdleSession /\ IdleConfig

\* a sale whose items are also repriced by the caller, and whose totals are
\* also recomputed by a direct call
NextSaleItems ==
    \/ AddItem /\ UNCHANGED <<scalevars, storevars, sessvars, confvars, helpvars>>
    \/ AddWeighedItem /\ UNCHANGED <<scalevars, storevars, sessvars, confvars, helpvars>>
    \/ ApplyDiscount /\ UNCHANGED <<scalevars, storevars, sessvars, confvars, helpvars>>
    \/ SetTotalPrice /\ UNCHANGED <<scalevars, storevars, sessvars, confvars, helpvars>>
    \/ CalculateTotals /\ UNCHANGED <<scalevars, storevars, sessvars, confvars, helpvars>>

SpecSaleItems == InitSaleItems /\ [][NextSaleItems]_vars

\* a deep merge of an override into a base, applied up to MaxMerges times
InitMerge ==
    /\ \E base \in JsonDicts, override \in JsonDicts :
          merge = [NoMerge EXCEPT !.base = base, !.override = override]
    /\ files = NoFiles /\ cfg = NoConfigManager /\ cfgcall = NoCfgCall
    /\ IdleScale /\ IdleStore /\ IdleHelpers /\ IdleSession /\ IdleSale

NextMerge ==
    \/ DeepMerge /\ UNCHANGED <<files, cfg, cfgcall, scalevars, storevars, sessvars, salevars, helpvars>>
    \/ DeepMergeDicts /\ UNCHANGED <<files, cfg, cfgcall, scalevars, storevars, sessvars, salevars, helpvars>>

SpecMerge == InitMerge /\ [][NextMerge]_vars

\* a ConfigManager over a configuration directory
InitConfig ==
    /\ files \in ConfigDirs
    /\ merge = NoMerge /\ cfg = NoConfigManager /\ cfgcall = NoCfgCall
    /\ IdleScale /\ IdleStore /\ IdleHelpers /\ IdleSession /\ IdleSale

NextConfig ==
    \/ ConstructConfig /\ UNCHANGED <<scalevars, storevars, sessvars, salevars, helpvars>>
    \/ Reload /\ UNCHANGED <<scalevars, storevars, sessvars, salevars, helpvars>>
    \/ Get /\ UNCHANGED <<scalevars, storevars, sessvars, salevars, helpvars>>
    \/ Set /\ UNCHANGED <<scalevars, storevars, sessvars, salevars, helpvars>>

SpecConfig == InitConfig /\ [][NextConfig]_vars

\* calls of a function decorated with retry_on_exception
InitRetry == IdleScale /\ IdleStore /\ IdleSession /\ IdleSale /\ IdleConfig /\ IdleHelpers

NextRetry ==
    \/ RetryCall /\ UNCHANGED <<readers, scalevars, storevars, sessvars, salevars, confvars>>
    \/ RetryAttempt /\ UNCHANGED <<readers, scalevars, storevars, sessvars, salevars, confvars>>
    \/ RetryAfterLoop /\ UNCHANGED <<readers, scalevars, storevars, sessvars, salevars, confvars>>

SpecRetry == InitRetry /\ [][NextRetry]_vars

\* a Connected driver of either brand, and two threads that each call
\* read_weight() once
InitThreads ==
    /\ \E brand \in Brands : scale = ScaleConnected(brand)
    /\ call = NoCall /\ wait = NoWait /\ IdleManager
    /\ IdleStore /\ IdleHelpers /\ IdleSession /\ IdleSale /\ IdleConfig

NextThreads ==
    \/ (\E t \in Threads : ThreadCall(t)) /\ UNCHANGED <<call, wait, manager, mgrcall, retry, storevars, sessvars, salevars, confvars>>
    \/ (\E t \in Threads : ThreadCheck(t)) /\ UNCHANGED <<call, wait, manager, mgrcall, retry, storevars, sessvars, salevars, confvars>>
    \/ (\E t \in Threads : ThreadBusy(t)) /\ UNCHANGED <<call, wait, manager, mgrcall, retry, storevars, sessvars, salevars, confvars>>
    \/ (\E t \in Threads : ThreadReset(t)) /\ UNCHANGED <<call, wait, manager, mgrcall, retry, storevars, sessvars, salevars, confvars>>
    \/ (\E t \in Threads : ThreadWrite(t)) /\ UNCHANGED <<call, wait, manager, mgrcall, retry, storevars, sessvars, salevars, confvars>>
    \/ (\E t \in Threads : ThreadRead(t)) /\ UNCHANGED <<call, wait, manager, mgrcall, retry, storevars, sessvars, salevars, confvars>>
    \/ (\E t \in Threads : ThreadParse(t)) /\ UNCHANGED <<call, wait, manager, mgrcall, retry, storevars, sessvars, salevars, confvars>>
    \/ (\E t \in Threads : ThreadFinally(t)) /\ UNCHANGED <<call, wait, manager, mgrcall, retry, storevars, sessvars, salevars, confvars>>

SpecThreads == InitThreads /\ [][NextThreads]_vars

(***************************************************************************)
(* Properties of the scale drivers                                         *)
(***************************************************************************)
\* a line the vendor's own parser turns into a weight
WellFormedLine(brand, line) ==
    strip(line) # <<>> /\ parse_response(brand, strip(line), FALSE).weight # None

\* a line without any digit: empty, or a payload that is not a number
NoNumericChars(line) == \A i \in 1..Len(line) : ~isdigit(line[i])

\* C1: when the port opens and the device answers the probe read with a
\* well-formed weight line, connect() returns true, the status is Connected
\* and last_error is cleared.
C1_ConnectReachesConnected ==
    (call.op = "connect" /\ call.io.open = "ok" /\ WellFormedLine(scale.brand, call.io.line))
        => (call.ok /\ scale.status = "connected" /\ scale.last_error = NoError)

\* C2: on a Connected driver whose transport did not fail, a read_weight()
\* that receives a malformed response (empty, or without a number) returns
\* None, sets last_error and leaves the status Connected.
C2_MalformedReadStaysConnected ==
    (call.op = "read_weight" /\ call.used /\ call.io.fail = "none"
       /\ NoNumericChars(call.io.line))
        => (call.weight = None /\ scale.last_error # NoError /\ scale.status = "connected")

\* C9: tare() returns true only if its verification read returned a weight,
\* and that weight is within 0.010 of zero.
C9_TareOnlyNearZero ==
    (call.op = "tare" /\ call.ok)
        => (call.weight # None /\ DecAbsLeq(call.weight, 10, 3)
              /\ scale.last_weight = call.weight)

\* a tare accepted on a reading of 0.005 kg
C9_Witness ==
    call.op = "tare" /\ call.ok /\ call.weight = Decimal(5, 3)

\* C10: for both vendors, a response without any numeric character is a
\* failed read: read_weight() returns None, never zero, and last_error is set.
C10_NoDigitsIsFailedRead ==
    (call.op = "read_weight" /\ call.used /\ call.io.fail = "none"
       /\ NoNumericChars(call.io.line))
        => (call.weight = None /\ ~call.ok /\ scale.last_error # NoError)

\* a read that received the frame "ST,GS,kg": a unit and no number
C10_Witness ==
    /\ call.op = "read_weight" /\ call.used /\ call.io.fail = "none"
    /\ call.io.line = <<"S", "T", ",", "G", "S", ",", "k", "g">>
    /\ call.weight = None

(***************************************************************************)
(* Properties of the local store                                           *)
(***************************************************************************)
\* C3: an execute_query, an execute_many batch or a get_connection scope in
\* which a statement raises leaves the database as it was before the call
\* (no row of the unit is kept), and the error reaches the caller.
C3_FailedUnitRolledBack ==
    dbcall.failed_at > 0 => (dbcall.raised /\ db = dbcall.pre)

\* a batch of three product inserts whose second violates UNIQUE(sku) after
\* the first had inserted its row on the connection
C3_Witness ==
    /\ dbcall.op = "execute_many" /\ dbcall.kind = "ins_product"
    /\ dbcall.n = 3 /\ dbcall.failed_at = 2
    /\ dbcall.data # dbcall.pre
    /\ db = dbcall.pre

\* C4 as stated: a get_connection scope whose body completes without raising
\* has its changes in the database when the scope exits, whether or not the
\* body called commit.
C4_ScopeCommitsOnExit ==
    (dbcall.op = "scope" /\ ~dbcall.raised) => db = dbcall.data

\* C4 amended: a get_connection scope whose body completes without raising
\* keeps its changes exactly if the body called conn.commit() before leaving
\* (as execute_query and execute_many do); otherwise the database is as it
\* was before the scope.
C4_ScopeKeepsWhatBodyCommitted ==
    /\ (dbcall.op = "scope" /\ ~dbcall.raised)
         => db = (IF dbcall.committed THEN dbcall.data ELSE dbcall.pre)
    /\ (dbcall.op \in {"execute_query", "execute_many"} /\ ~dbcall.raised)
         => (dbcall.committed /\ db = dbcall.data)

\* a scope of two statements that did not raise and did not commit: its rows
\* are gone
C4_Witness ==
    /\ dbcall.op = "scope" /\ ~dbcall.raised /\ ~dbcall.committed
    /\ dbcall.n = 2 /\ dbcall.data # dbcall.pre
    /\ db = dbcall.pre

\* C7: no sale_items row references a sales row that is missing: deleting a
\* sale deletes its items, and an item of a missing sale cannot be inserted,
\* on every connection the store opens.
C7_NoOrphanSaleItems ==
    \A i \in db.sale_items : i.sale_id \in db.sales

(***************************************************************************)
(* Properties of the records                                               *)
(***************************************************************************)
\* C5: between add_sale / cancel_sale calls, total_sales is the sum of the
\* four category totals.
C5_TotalIsSumOfCategories ==
    sess.total_sales = sess.total_cash_sales + sess.total_card_sales
                         + sess.total_pix_sales + sess.total_other_sales

\* C6: after add_item, remove_item, clear_items or apply_discount,
\* total_amount = subtotal - discount_amount + tax_amount, with the three
\* recomputed from the current items (and the percentage discount).
C6_TotalsRecomputed ==
    salecall.op \in {"add_item", "remove_item", "clear_items", "apply_discount"}
        => /\ sale.subtotal = SumTotalPrice(sale.items)
           /\ sale.discount_amount
                = SumDiscount(sale.items)
                    + additional_discount(sale.subtotal, sale.discount_percentage)
           /\ sale.tax_amount = SumTax(sale.items)
           /\ sale.total_amount = sale.subtotal - sale.discount_amount + sale.tax_amount

\* C8: a record that was modified locally is dirty (synced = false): after
\* add_item on a Sale, and after an add_sale on a CashierSession.
C8_ModifiedRecordIsDirty ==
    /\ salecall.op = "add_item" => ~sale.synced
    /\ (sesscall.op = "add_sale" /\ ~sesscall.raised) => ~sess.synced

(***************************************************************************)
(* Vendor grammar: the responses the two protocols define, with the weight *)
(* and the stability each one states                                       *)
(***************************************************************************)
\* Toledo: "ST,GS,<number>kg" (stable) or "US,GS,<number>kg" (unstable)
ToledoReadings ==
    { [line |-> f.pre \o n \o f.suf, weight |-> DecimalOfStr(n), stable |-> f.stable] :
        f \in { [pre |-> <<"S", "T", ",", "G", "S", ",">>, suf |-> <<"k", "g", "CR", "LF">>,
                 stable |-> TRUE],
                [pre |-> <<"U", "S", ",", "G", "S", ",">>, suf |-> <<"k", "g">>,
                 stable |-> FALSE] },
        n \in { m \in NumStrings : DecimalOfStr(m) # None } }

\* Filizola: "S<number>" (stable) or "<number>" (unstable)
FilizolaReadings ==
    { [line |-> f.pre \o n \o f.suf, weight |-> DecimalOfStr(n), stable |-> f.stable] :
        f \in { [pre |-> <<"S">>, suf |-> <<>>, stable |-> TRUE],
                [pre |-> <<>>, suf |-> <<"CR", "LF">>, stable |-> FALSE] },
        n \in { m \in NumStrings : DecimalOfStr(m) # None } }

VendorReadings(brand) == IF brand = "toledo" THEN ToledoReadings ELSE FilizolaReadings

\* C11: on a Connected driver, a valid vendor response containing a number
\* makes read_weight() return that number, sign included, and sets the
\* stability flag to the response's own stability marker.
C11_ReadReturnsVendorValue ==
    \A v \in VendorReadings(scale.brand) :
        (call.op = "read_weight" /\ call.used /\ call.io.fail = "none"
           /\ call.io.line = v.line)
            => (call.weight = v.weight /\ scale.is_stable = v.stable)

\* the last driver call met a failure of the transport: the port did not
\* open, close() raised, the command write raised, or the read timed out or
\* raised
TransportFailed ==
    \/ call.op = "connect" /\ (call.io.open = "error" \/ call.io.close = "error")
    \/ call.op = "disconnect" /\ call.used /\ call.io.close = "error"
    \/ call.op = "read_weight" /\ call.used /\ call.io.fail # "none"
    \/ call.op = "tare" /\ call.used /\ (call.io.write = "error" \/ call.io.fail # "none")
    \/ call.op = "zero" /\ call.used /\ call.io.write = "error"

\* C12: a driver operation that meets a transport failure returns false /
\* None (it does not raise), leaves status Error and a non-empty last_error.
C12_TransportFailureCaptured ==
    TransportFailed
        => (~call.ok /\ call.weight = None
              /\ scale.status = "error" /\ scale.last_error # NoError)

\* a read on a Connected driver that timed out
C12_Witness ==
    /\ call.op = "read_weight" /\ call.used /\ call.io.fail = "timeout"
    /\ ~call.ok /\ scale.status = "error"

\* C13: Busy is transient: no state between driver operations has status
\* Busy, whichever way read_weight() ended (success, parse failure, timeout,
\* exception).
C13_BusyIsTransient ==
    scale.status # "busy"

\* reads that reached the transport and ended by an exception
C13_Witness ==
    /\ call.op = "read_weight" /\ call.used /\ call.io.fail = "error"
    /\ scale.status = "error"

(***************************************************************************)
(* Properties of wait_for_stable_weight                                    *)
(***************************************************************************)
\* C14 as stated: a wait that returns None on timeout does so once the
\* timeout has elapsed and within one poll interval of it.
C14_TimeoutWithinOnePoll ==
    (wait.returned /\ wait.result = None)
        => (wait.timeout <= wait.elapsed /\ wait.elapsed <= wait.timeout + 1)

\* C14 amended: every wait terminates; one that returns None does so once
\* the timeout has elapsed and no later than the duration of one read (plus
\* its poll interval) after it.
C14_WaitTerminates ==
    /\ wait.active ~> wait.returned
    /\ []((wait.returned /\ wait.result = None)
            => (wait.timeout <= wait.elapsed
                  /\ wait.elapsed <= wait.timeout + MaxReadTicks))

\* a wait on a Connected driver that polled and returned None after its timeout
C14_Witness ==
    /\ wait.returned /\ wait.result = None /\ wait.polled
    /\ wait.timeout = MaxTimeout /\ wait.elapsed >= wait.timeout
    /\ scale.status = "connected"

\* the vendor's stability marker: Toledo "ST", Filizola a leading "S"
LineStable(brand, line) ==
    IF brand = "toledo"
    THEN Contains(line, <<"S", "T">>)
    ELSE startswith(line, <<"S">>)

\* C15: a wait returns a weight only from a read of this wait that succeeded
\* and whose own response carried the stability marker.
C15_WaitReturnsStableReading ==
    (wait.returned /\ wait.result # None)
        => /\ wait.polled
           /\ call.op = "read_weight" /\ call.used /\ call.ok
           /\ call.weight = wait.result
           /\ LineStable(scale.brand, call.io.line)
           /\ scale.is_stable

\* a wait that returned a stable weight after time had passed in it
C15_Witness ==
    /\ wait.returned /\ wait.result # None
    /\ wait.elapsed > 0
    /\ LineStable(scale.brand, call.io.line)

(***************************************************************************)
(* Properties of ScaleManager                                              *)
(***************************************************************************)
\* a manager built from a configuration whose 'enabled' is false or absent
ManagerDisabled ==
    manager.constructed /\ ~config_get(manager.config.enabled, FALSE)

FacadeOps ==
    {"connect", "disconnect", "is_connected", "read_weight", "wait_for_stable_weight",
     "tare", "zero", "get_status"}

\* the disabled manager holds no driver and its calls touch none: no
\* transport is opened, no driver state changes, no wait loop starts
ManagerHoldsNoDriver ==
    /\ ~manager.raised /\ ~manager.has_scale
    /\ ~mgrcall.opened
    /\ scale = ScaleConstructed("toledo") /\ call = NoCall /\ wait = NoWait

\* C16 as stated: a disabled manager holds no driver, never opens a
\* transport, and every facade call returns false, None or the disabled
\* status record.
C16_DisabledReturnsAbsent ==
    ManagerDisabled
        => /\ ManagerHoldsNoDriver
           /\ mgrcall.op \in FacadeOps
                => /\ ~mgrcall.ok /\ mgrcall.weight = None
                   /\ mgrcall.op = "get_status" => mgrcall.status = "disabled"

\* C16 amended: as stated, except that disconnect() returns true.
C16_DisabledIsInert ==
    ManagerDisabled
        => /\ ManagerHoldsNoDriver
           /\ mgrcall.op \in FacadeOps
                => /\ mgrcall.ok = (mgrcall.op = "disconnect")
                   /\ mgrcall.weight = None
                   /\ mgrcall.op = "get_status" => mgrcall.status = "disabled"

\* connect() on a manager configured with enabled = false and a supported brand
C16_Witness ==
    /\ manager.config.enabled = <<FALSE>> /\ manager.config.default_brand = <<"toledo">>
    /\ mgrcall.op = "connect" /\ ~mgrcall.ok /\ ~mgrcall.opened

\* the configuration names a brand that is not supported
UnsupportedBrand == configured_brand(manager.config) \notin Brands

\* C17 as stated: constructing a manager whose default_brand is not a
\* supported vendor raises; it never yields a manager without driver.
C17_UnsupportedBrandRaises ==
    (manager.constructed /\ UnsupportedBrand) => manager.raised

\* C17 amended: constructing an enabled manager whose default_brand is not a
\* supported vendor raises; a disabled one is built without driver whatever
\* its default_brand, and no manager holds a driver of an unsupported brand.
C17_EnabledUnsupportedBrandRaises ==
    manager.constructed
        => /\ manager.raised
                = (config_get(manager.config.enabled, FALSE) /\ UnsupportedBrand)
           /\ manager.has_scale
                = (config_get(manager.config.enabled, FALSE) /\ ~UnsupportedBrand)
           /\ manager.has_scale => scale.brand = configured_brand(manager.config)

\* ScaleManager({'enabled': True, 'default_brand': 'acme'}) raised
C17_Witness ==
    /\ manager.constructed /\ manager.raised
    /\ manager.config.enabled = <<TRUE>> /\ manager.config.default_brand = <<"acme">>
    /\ mgrcall.op = "construct"

(***************************************************************************)
(* disconnect                                                              *)
(***************************************************************************)
\* C18 as stated: from any driver state disconnect() returns true and leaves
\* status Disconnected and no transport handle.
C18_DisconnectAlwaysSucceeds ==
    call.op = "disconnect"
        => (call.ok /\ scale.status = "disconnected" /\ scale.serial_connection = "None")

\* C18 amended: unless close() raises, disconnect() returns true and leaves
\* status Disconnected and no transport handle, from any driver state; a
\* disconnect() called right after a successful one returns true and changes
\* nothing.  When close() raises it returns false, with status Error and the
\* handle kept.
C18_DisconnectIdempotent ==
    /\ [](call.op = "disconnect"
            => IF call.used /\ call.io.close = "error"
               THEN ~call.ok /\ scale.status = "error" /\ scale.serial_connection = "open"
               ELSE call.ok /\ scale.status = "disconnected"
                      /\ scale.serial_connection = "None")
    /\ [][(call.op = "disconnect" /\ call.ok /\ call'.op = "disconnect")
            => (call'.ok /\ scale' = scale)]_vars

\* a disconnect() with no open handle on a driver that had been in Error
C18_Witness ==
    /\ call.op = "disconnect" /\ call.ok /\ ~call.used
    /\ scale.status = "disconnected" /\ scale.last_error # NoError

(***************************************************************************)
(* CashierSession counters and lifecycle                                   *)
(***************************************************************************)
\* C19: after each add_sale / cancel_sale call, sales_count equals the number
\* of add_sale calls minus the number of cancel_sale calls -- counting either
\* every call made or only the calls that returned normally.
C19_SalesCountIsAddsMinusCancels ==
    sesscall.op \in {"add_sale", "cancel_sale"}
        => \/ sess.sales_count = ledger.add_calls - ledger.cancel_calls
           \/ sess.sales_count = ledger.add_returns - ledger.cancel_returns

\* a cancel_sale that raised after it had decremented sales_count
C19_CancelRaisedAfterDecrement ==
    /\ sesscall.op = "cancel_sale" /\ sesscall.raised
    /\ sess.sales_count < ledger.add_returns - ledger.cancel_returns

\* C20: the status of a CashierSession changes only Open -> Suspended by
\* suspend_session, Suspended -> Open by resume_session and Open -> Closed by
\* close_session; no method changes the status of a Closed session.
C20_StatusLifecycle ==
    [][sess'.status # sess.status
         => \/ /\ sess.status = "open" /\ sess'.status = "suspended"
               /\ sesscall'.op = "suspend_session"
            \/ /\ sess.status = "suspended" /\ sess'.status = "open"
               /\ sesscall'.op = "resume_session"
            \/ /\ sess.status = "open" /\ sess'.status = "closed"
               /\ sesscall'.op = "close_session" /\ ~sesscall'.raised]_vars

\* resume_session called on a Closed session, which stays Closed
C20_Witness ==
    sess.status = "closed" /\ sess.closed_at # <<>> /\ sesscall.op = "resume_session"

\* C21: closing_cash, expected_cash and cash_difference are unset while the
\* session has not been closed, are assigned only by a close_session that
\* returns normally, and keep their values under every later call.
C21_ClosingFieldsSetOnlyOnClose ==
    /\ [](sess.status # "closed"
            => /\ sess.closing_cash = <<>>
               /\ sess.expected_cash = <<>>
               /\ sess.cash_difference = <<>>)
    /\ [][<<sess'.closing_cash, sess'.expected_cash, sess'.cash_difference>>
              # <<sess.closing_cash, sess.expected_cash, sess.cash_difference>>
            => /\ sesscall'.op = "close_session" /\ ~sesscall'.raised
               /\ sess.status = "open" /\ sess'.status = "closed"]_vars

\* a close_session that raised and left the closing amounts on an Open session
C21_FailedCloseLeftAmounts ==
    /\ sesscall.op = "close_session" /\ sesscall.raised
    /\ sess.status = "open" /\ sess.closed_at = <<>>
    /\ sess.closing_cash # <<>> /\ sess.expected_cash # <<>> /\ sess.cash_difference # <<>>

(***************************************************************************)
(* Properties of the configuration                                         *)
(***************************************************************************)
\* key paths of one or two segments
KeyPaths ==
    { <<k>> : k \in TopKeys \cup NestedKeys }
        \cup { <<k1, k2>> : k1 \in TopKeys \cup NestedKeys, k2 \in TopKeys \cup NestedKeys }

\* the value at a path of a JSON value: <<v>>, or <<>> when there is none
RECURSIVE ValueAt(_, _)
ValueAt(x, path) ==
    IF path = <<>> THEN <<x>>
    ELSE IF is_dict(x) /\ Head(path) \in DOMAIN x.dict
         THEN ValueAt(x.dict[Head(path)], Tail(path))
         ELSE <<>>

\* the override has a value at the path and it wins there: it is not a dict,
\* or the base has no dict there to recurse into
OverrideWinsAt(base, override, path) ==
    /\ ValueAt(override, path) # <<>>
    /\ \/ ~is_dict(ValueAt(override, path)[1])
       \/ ValueAt(base, path) = <<>>
       \/ ~is_dict(ValueAt(base, path)[1])

\* the override does not mention the path: it has no value there, and above
\* the path it has only dicts or nothing
NotMentioned(override, path) ==
    /\ ValueAt(override, path) = <<>>
    /\ \A n \in 1..(Len(path) - 1) :
          \/ ValueAt(override, SubSeq(path, 1, n)) = <<>>
          \/ is_dict(ValueAt(override, SubSeq(path, 1, n))[1])

MergedOnce == merge.times = 1

\* C22: after one deep merge, by either function, at every path where the
\* override wins the result has the override's value, and every value of the
\* base at a path the override does not mention is kept.
C22_OverrideWinsBaseKept ==
    MergedOnce =>
        \A path \in KeyPaths :
            /\ OverrideWinsAt(merge.base, merge.override, path)
                  => ValueAt(merge.result[1], path) = ValueAt(merge.override, path)
            /\ (ValueAt(merge.base, path) # <<>> /\ NotMentioned(merge.override, path))
                  => ValueAt(merge.result[1], path) = ValueAt(merge.base, path)

\* {a: {b: 1, c: 2}} merged with {a: {b: 2}} gives {a: {b: 2, c: 2}}
C22_Witness ==
    /\ MergedOnce
    /\ merge.base = Dict([a |-> Dict([b |-> Leaf(1), c |-> Leaf(2)])])
    /\ merge.override = Dict([a |-> Dict([b |-> Leaf(2)])])
    /\ merge.result = <<Dict([a |-> Dict([b |-> Leaf(2), c |-> Leaf(2)])])>>

\* C23: merging the same override a second time gives what the first merge
\* gave, and merging a dict with itself as the override gives that dict, by
\* either function.
C23_MergeIdempotent ==
    /\ merge.times >= 2 => merge.result = merge.first
    /\ (merge.times >= 1 /\ merge.override = merge.base) => merge.result = <<merge.base>>

\* an override merged twice whose merge changed the base at both levels and
\* did not simply give the override
C23_Witness ==
    /\ merge.times = 2
    /\ merge.result[1] # merge.base /\ merge.result[1] # merge.override
    /\ \E k \in TopKeys :
          /\ ValueAt(merge.base, <<k>>) # <<>> /\ ValueAt(merge.override, <<k>>) # <<>>
          /\ is_dict(ValueAt(merge.base, <<k>>)[1])
          /\ is_dict(ValueAt(merge.override, <<k>>)[1])
          /\ ValueAt(merge.result[1], <<k>>) # ValueAt(merge.base, <<k>>)
          /\ ValueAt(merge.result[1], <<k>>) # ValueAt(merge.override, <<k>>)

\* the keys a key path names, in order; the empty path names none
PathKeys(key_path) ==
    IF key_path = <<>> THEN <<>>
    ELSE [i \in 1..Len(split(key_path)) |-> KeyOf(split(key_path)[i])]

\* the value a domain stores at a key path: <<v>>, or <<>> when the domain
\* is not loaded, a segment is missing, or a segment is under a non-dict
StoredAt(configs, config_name, key_path) ==
    IF config_name \in DOMAIN configs
    THEN ValueAt(configs[config_name], PathKeys(key_path))
    ELSE <<>>

\* C24: get(domain, path, default) does not raise; it returns the value the
\* domain stores at the path, and the default when the domain is not loaded,
\* a segment is missing or a segment is reached through a non-dict.
C24_GetReturnsStoredOrDefault ==
    cfgcall.op = "get"
        => /\ ~cfgcall.raised
           /\ cfgcall.result =
                 IF StoredAt(cfg.configs, cfgcall.name, cfgcall.path) = <<>>
                 THEN <<DefaultValue>>
                 ELSE StoredAt(cfg.configs, cfgcall.name, cfgcall.path)

\* get('api', 'b.c') where b holds a number: the default
C24_Witness ==
    /\ cfgcall.op = "get" /\ cfgcall.name = "api" /\ cfgcall.path = <<"b", ".", "c">>
    /\ "api" \in DOMAIN cfg.configs
    /\ ValueAt(cfg.configs["api"], <<"b">>) = <<Leaf(1)>>
    /\ cfgcall.result = <<DefaultValue>>

\* one of two key lists begins the other
IsPrefix(p, q) == Len(p) <= Len(q) /\ SubSeq(q, 1, Len(p)) = p

Related(p, q) == IsPrefix(p, q) \/ IsPrefix(q, p)

\* C25: set(domain, path, v) returns normally and get(domain, path) then
\* returns v, whatever the domain held; and the call leaves the value at
\* every path of every domain that is neither a prefix nor an extension of
\* the set path as it was.
C25_SetThenGet ==
    /\ [](cfgcall.op = "set"
            => /\ ~cfgcall.raised
               /\ get(cfg.configs, cfgcall.name, cfgcall.path, DefaultValue)
                     = cfgcall.value[1])
    /\ [][cfgcall'.op = "set" /\ cfg'.sets # cfg.sets
            => \A config_name \in ConfigNames, key_path \in GetPaths \cup SetPaths :
                  (config_name # cfgcall'.name
                     \/ ~Related(PathKeys(key_path), PathKeys(cfgcall'.path)))
                  => StoredAt(cfg'.configs, config_name, key_path)
                       = StoredAt(cfg.configs, config_name, key_path)]_vars

\* a set() that raised on a domain loaded from a file whose JSON value is
\* not an object
C25_SetRaisedOnNonDictDomain ==
    /\ cfgcall.op = "set" /\ cfgcall.raised
    /\ cfgcall.name \in DOMAIN cfg.configs
    /\ ~is_dict(cfg.configs[cfgcall.name])
    /\ get(cfg.configs, cfgcall.name, cfgcall.path, DefaultValue) = DefaultValue

(***************************************************************************)
(* Properties of the settings table                                        *)
(***************************************************************************)
\* C26: the settings table holds at most one row per key, and get_setting
\* returns the text form of the value last given to set_setting for the
\* key, or the caller's default if set_setting was never called for it.
C26_SettingsUpsert ==
    /\ \A r1 \in db.app_settings, r2 \in db.app_settings : r1.key = r2.key => r1 = r2
    /\ settings.op = "get_setting"
         => settings.result =
              IF settings.last[settings.key] = <<>>
              THEN <<DefaultSetting>>
              ELSE <<PyStr(str_of(settings.last[settings.key][1]))>>

\* get_setting of a key that was set to a str and then to a bool
C26_Witness ==
    /\ settings.op = "get_setting"
    /\ settings.last[settings.key] = <<PyBool(TRUE)>>
    /\ settings.result = <<PyStr("True")>>
    /\ \E r \in db.app_settings : r.key = settings.key /\ r.updated_at = 2
    /\ \E r \in db.app_settings : r.key # settings.key

(***************************************************************************)
(* Further properties of the scale drivers                                 *)
(***************************************************************************)
\* C27: every weight read_weight() returns, and so every value of
\* last_weight, is >= 0, for both vendors and every device response.
C27_WeightNonNegative ==
    /\ (call.op = "read_weight" /\ call.weight # None) => call.weight[1] >= 0
    /\ scale.last_weight # None => scale.last_weight[1] >= 0

\* a Toledo read that returned a weight below zero and kept it
C27_NegativeWeightReturned ==
    /\ call.op = "read_weight" /\ call.ok /\ scale.brand = "toledo"
    /\ call.weight # None /\ call.weight[1] < 0
    /\ scale.last_weight = call.weight /\ scale.status = "connected"

\* C28: the driver never opens a transport handle while it still holds an
\* open one: every connect() whose serial.Serial(...) opened the port began
\* with no open handle.
C28_SingleOpenHandle ==
    (call.op = "connect" /\ call.io.open = "ok") => ~call.held

\* a connect() on a driver that held an open handle opened the port again
C28_SecondHandleOpened ==
    call.op = "connect" /\ call.io.open = "ok" /\ call.held

\* C29: zero() on a Connected driver whose command write does not fail
\* returns true without reading from the device and leaves the driver as it
\* was: last_weight, the stability flag, status and last_error.
C29_ZeroTrustsDevice ==
    [][(call'.op = "zero" /\ is_connected(scale) /\ call'.io.write = "ok")
         => (call'.ok /\ call'.weight = None /\ call'.io.line = <<>> /\ scale' = scale)]_vars

\* a zero() that returned true on a driver whose last weight is not zero
C29_Witness ==
    /\ call.op = "zero" /\ call.used /\ call.ok
    /\ scale.status = "connected"
    /\ scale.last_weight # None /\ ~DecIsZero(scale.last_weight)

\* the last call built or rebuilt _configs from the directory
Loaded == cfgcall.op \in {"__init__", "reload"}

\* the base file of the domain cannot be resolved: no directory, no file, or
\* text that is not JSON
BaseUnresolved(name) == ~files.dir \/ files.base[name].kind \in {"missing", "malformed"}

\* the base file is resolved and the local override is not JSON
LocalUnresolved(name) ==
    ~BaseUnresolved(name) /\ files.local[name].kind = "malformed"

\* the load logged the failure: of the directory, or of the domain
Logged(name) ==
    IF files.dir THEN \E level \in {"warning", "error"} : <<level, name>> \in cfgcall.log
    ELSE <<"warning", "config_dir">> \in cfgcall.log

\* C30 as stated: construction and reload do not raise; a domain whose base
\* or local file cannot be resolved is logged, is absent or at its base
\* values, and get() on it returns the default.
C30_ResolutionErrorGivesDefault ==
    Loaded =>
        /\ ~cfgcall.raised
        /\ \A name \in {"api", "ui"} :
              (BaseUnresolved(name) \/ LocalUnresolved(name))
                 => /\ Logged(name)
                    /\ \/ name \notin DOMAIN cfg.configs
                       \/ cfg.configs[name] = files.base[name].value
                    /\ \A key_path \in GetPaths :
                          get(cfg.configs, name, key_path, DefaultValue) = DefaultValue

\* C30 amended: construction and reload do not raise; a domain whose base
\* file cannot be resolved is logged and absent, and get() on it returns the
\* default; a domain whose local override is not JSON is logged and holds
\* exactly the values of its base file, which get() returns.
C30_ResolutionErrorDegrades ==
    Loaded =>
        /\ ~cfgcall.raised
        /\ \A name \in {"api", "ui"} :
              /\ BaseUnresolved(name)
                    => /\ Logged(name)
                       /\ name \notin DOMAIN cfg.configs
                       /\ \A key_path \in GetPaths :
                             get(cfg.configs, name, key_path, DefaultValue) = DefaultValue
              /\ LocalUnresolved(name)
                    => /\ Logged(name)
                       /\ name \in DOMAIN cfg.configs
                       /\ cfg.configs[name] = files.base[name].value
                       /\ get(cfg.configs, name, <<>>, DefaultValue) = files.base[name].value

\* a reload with api.json resolved to an object, local_api.json not JSON, and
\* ui.json missing: api serves its base values, ui is absent
C30_Witness ==
    /\ cfgcall.op = "reload"
    /\ LocalUnresolved("api") /\ is_dict(files.base["api"].value)
    /\ BaseUnresolved("ui")
    /\ get(cfg.configs, "api", <<"a", ".", "b">>, DefaultValue) = Leaf(1)
    /\ get(cfg.configs, "ui", <<"b">>, DefaultValue) = DefaultValue

(***************************************************************************)
(* C31: a call of a function wrapped by retry_on_exception                 *)
(***************************************************************************)
\* the invocations of the wrapped function made so far by the call
Invocations == Len(retry.outcomes)

\* the i-th invocation raised an exception the wrapper lists
RaisedListed(i) ==
    /\ retry.outcomes[i] \in Raisable
    /\ Caught(retry.outcomes[i], retry.exceptions)

\* C31: a function wrapped with max_attempts = n is invoked at most n times
\* per call; every invocation before the last raised a listed exception; the
\* wrapper returns only when the last invocation returned; an exception
\* propagates only when it is not listed, or when it is listed and was raised
\* by the n-th invocation; and the wrapper goes on to another attempt only
\* after listed exceptions, so an exception not listed propagates at once.
C31_AtMostNInvocations ==
    /\ Invocations <= retry.max_attempts
    /\ \A i \in 1..(Invocations - 1) : RaisedListed(i)
    /\ retry.at = "returned" => (Invocations > 0 /\ retry.outcomes[Invocations] = "return")
    /\ retry.at = "raised" =>
          /\ Invocations > 0 /\ retry.outcomes[Invocations] \in Raisable
          /\ RaisedListed(Invocations) => Invocations = retry.max_attempts
    /\ retry.at = "loop" => \A i \in 1..Invocations : RaisedListed(i)

\* a wrapper built with max_attempts = 0 has invoked the function
C31_InvokedWithZeroAttempts ==
    /\ retry.max_attempts = 0
    /\ retry.at \in {"returned", "raised"}
    /\ Invocations = 1

(***************************************************************************)
(* C32: close_session on a session that is not Open                        *)
(***************************************************************************)
\* C32: a close_session call made on a session whose status is not Open
\* (Suspended or Closed) raises, and leaves the session as it was: status,
\* closing_cash, expected_cash, cash_difference, closed_at, closing_notes and
\* every other field.
C32_CloseRefusedUnlessOpen ==
    [][(sesscall'.op = "close_session" /\ sess.status # "open")
          => (sesscall'.raised /\ sess' = sess)]_vars

\* close_session was called on a Suspended or Closed session that holds notes, and raised
C32_Witness ==
    /\ sesscall.op = "close_session"
    /\ sesscall.raised
    /\ sess.status \in {"suspended", "closed"}
    /\ sess.closing_notes # <<>>

(***************************************************************************)
(* C33: read_weight, tare and zero on a driver that is not Connected       *)
(***************************************************************************)
\* C33: a read_weight, tare or zero call made while the driver is not
\* Connected does not reach the transport, returns no weight / false, and
\* leaves status as it was.
C33_NotConnectedCallIsInert ==
    [][(call'.op \in {"read_weight", "tare", "zero"} /\ ~is_connected(scale))
          => /\ ~call'.used
             /\ ~call'.ok /\ call'.weight = None
             /\ scale'.status = scale.status]_vars

\* read_weight was called on a driver that holds no transport: nothing was
\* sent, no weight came back, and status is Error with the not-connected message
C33_ReadMovedDisconnectedToError ==
    /\ call.op = "read_weight"
    /\ ~call.used /\ ~call.held
    /\ call.weight = None
    /\ scale.serial_connection = "None"
    /\ scale.status = "error"
    /\ scale.last_error = "Balanca nao conectada"

(***************************************************************************)
(* C34: the closing amounts of a Closed session                            *)
(***************************************************************************)
\* C34: whenever the session is Closed, expected_cash is opening_cash plus
\* total_cash_sales, and cash_difference is closing_cash minus expected_cash.
C34_ClosedAmountsConsistent ==
    sess.status = "closed" =>
        /\ sess.expected_cash = <<sess.opening_cash + sess.total_cash_sales>>
        /\ sess.closing_cash # <<>>
        /\ sess.cash_difference = <<sess.closing_cash[1] - sess.expected_cash[1]>>

\* add_sale with a cash payment returned on a Closed session, and the cash
\* total no longer matches the expected_cash recorded at closing
C34_CashSaleAfterClose ==
    /\ sess.status = "closed"
    /\ sesscall.op = "add_sale" /\ ~sesscall.raised
    /\ sess.expected_cash # <<sess.opening_cash + sess.total_cash_sales>>
    /\ sess.cash_difference = <<sess.closing_cash[1] - sess.expected_cash[1]>>

(***************************************************************************)
(* C35: the total of a sale without a general discount                     *)
(***************************************************************************)
\* unit_price x quantity-or-weight - discount_amount + tax_amount of one item
ItemNet(item) ==
    (IF item.weight # <<>> /\ item.weight[1] # 0
     THEN item.unit_price * item.weight[1]
     ELSE item.unit_price * item.quantity)
      - item.discount_amount
      + (IF item.tax_amount = <<>> THEN 0 ELSE item.tax_amount[1])

RECURSIVE SumItemNet(_)
SumItemNet(items) ==
    IF items = <<>> THEN 0 ELSE ItemNet(Head(items)) + SumItemNet(Tail(items))

\* calculate_totals has just run to its end on a sale that has no general
\* discount percentage
TotalsJustCalculated ==
    /\ salecall.op \in {"add_item", "calculate_totals"}
    /\ ~salecall.raised
    /\ sale.discount_percentage \in {<<>>, <<0>>}

\* C35: for a sale with no general discount percentage, after
\* calculate_totals the total_amount is the sum over the items of
\* unit_price x quantity-or-weight - discount_amount + tax_amount: the
\* discount of each item is subtracted once.
C35_ItemDiscountSubtractedOnce ==
    TotalsJustCalculated => sale.total_amount = SumItemNet(sale.items)

\* calculate_totals ran on a sale holding one item whose total_price was
\* assigned the price after its discount: the total has the discount
\* subtracted twice
C35_DiscountSubtractedTwice ==
    /\ TotalsJustCalculated
    /\ salecall.op = "calculate_totals"
    /\ Len(sale.items) = 1
    /\ sale.items[1].discount_amount > 1
    /\ sale.total_amount = ItemNet(sale.items[1]) - sale.items[1].discount_amount

(***************************************************************************)
(* C36: the connection parameters of a driver built by the manager         *)
(***************************************************************************)
\* the value the manager's configuration gives for a connection parameter,
\* or the default when its connection block does not give it
Configured(name, default) ==
    dict_get(config_get(manager.config.connection, EmptyDict), name, default)

\* the connection block of the manager's configuration sets all three parameters
ConnectionFullySet ==
    /\ manager.config.connection # <<>>
    /\ DOMAIN manager.config.connection[1] = {"port", "baudrate", "timeout"}

\* C36: when the connection block of the manager's configuration sets port,
\* baudrate and timeout, a connect() made through the manager opens the
\* transport with exactly those values.
C36_ConnectUsesConfiguredParameters ==
    (manager.has_scale /\ call.op = "connect" /\ ConnectionFullySet)
        => /\ call.opened_with.port = Configured("port", "COM1")
           /\ call.opened_with.baudrate = Configured("baudrate", 9600)
           /\ call.opened_with.timeout = Configured("timeout", 2)

\* the configuration sets COM3, 4800 baud and a timeout of 5, and connect()
\* opened COM1 at 9600 baud with a timeout of 2
C36_ConnectOpenedDefaults ==
    /\ manager.has_scale /\ mgrcall.op = "connect" /\ call.op = "connect"
    /\ manager.config.connection = <<[port |-> "COM3", baudrate |-> 4800, timeout |-> 5]>>
    /\ call.io.open = "ok"
    /\ call.opened_with = [port |-> "COM1", baudrate |-> 9600, timeout |-> 2]

(***************************************************************************)
(* C37: completing a sale                                                  *)
(***************************************************************************)
\* the sale is Pending, holds an item, has a positive total and is paid in full
Completable ==
    /\ sale.status = "pending"
    /\ Len(sale.items) >= 1
    /\ sale.total_amount > 0
    /\ sale.amount_paid >= sale.total_amount

\* C37: a complete() call sets status to Completed, and changes nothing else,
\* when the sale is Pending, has at least one item, total_amount > 0 and
\* amount_paid >= total_amount; otherwise it leaves every field as it was.
\* No other call makes a sale Completed.
C37_CompleteOnlyThroughGuard ==
    [][/\ salecall'.op = "complete" =>
            sale' = IF Completable THEN [sale EXCEPT !.status = "completed"] ELSE sale
       /\ (sale.status # "completed" /\ sale'.status = "completed") =>
            (salecall'.op = "complete" /\ Completable)]_vars

\* complete() has made a paid sale Completed
C37_Witness ==
    /\ salecall.op = "complete" /\ ~salecall.raised
    /\ sale.status = "completed"
    /\ Len(sale.items) >= 1 /\ sale.total_amount > 0
    /\ sale.amount_paid >= sale.total_amount

(***************************************************************************)
(* C38: two threads calling read_weight() on one Connected driver          *)
(***************************************************************************)
BothReturned == \A t \in Threads : readers.pc[t] = "done"

\* both calls returned a weight and the driver is Connected
BothSucceeded ==
    /\ \A t \in Threads :
          /\ readers.returned[t].weight # None
          /\ readers.returned[t].error # "Balanca nao conectada"
    /\ scale.status = "connected"

\* C38 as stated: whatever the interleaving of the two calls, once both have
\* returned both have returned a weight, neither failed with the
\* not-connected error, and status is Connected.
C38_ConcurrentReadsSucceed == BothReturned => BothSucceeded

\* C38, amended: when the two calls did not overlap (one returned before
\* the other began), both return a weight and status is Connected once both
\* have returned.
C38_SerializedReadsSucceed == (BothReturned /\ ~readers.overlapped) => BothSucceeded

\* both calls have returned, one after the other
C38_Witness ==
    /\ BothReturned /\ ~readers.overlapped
    /\ \A t \in Threads : readers.returned[t].weight # None

====
